---- MODULE Spec2Model ----
(***************************************************************************)
(* kelindar/approx: Morris counters (Count8, Count16), the lock-free       *)
(* packed group of four 16-bit counters (Count16x4) and the Count-Min      *)
(* sketch built from it.                                                   *)
(*                                                                         *)
(* src/count.go holds three revisions of the counters, one after another:  *)
(*   "rand"  lines   1-174  explicit overflow check, rand.Float32 per try  *)
(*   "roll"  lines 176-368  roll32, d[max] = 0, incrementAt(i, roll)       *)
(*   "f64"   lines 370-524  float64 tables, scale 32, returns uint(t1)     *)
(* The variable rev says which revision an object was built from.          *)
(*                                                                         *)
(* Numbers: TLC's integers are 32 bits wide.  A uint that can exceed       *)
(* 2^31-1 (a 16-bit counter's estimate, a sketch width) is a pair          *)
(* <<hi, lo>> standing for hi * 10^6 + lo, with 0 <= lo < 10^6, compared   *)
(* with WLess / WLeq.  A random roll r in [0,1) is the integer r * 2^24    *)
(* (roll32 and rand.Float32 both return a multiple of 2^-24), and a        *)
(* probability d of the delta tables is the number of rolls below it,      *)
(* ceil(d * 2^24): roll < d in the code is roll < d8(c) here.              *)
(***************************************************************************)
EXTENDS Integers, Naturals, Sequences, FiniteSets, TLC

\* ------------------------------------------------------------- wide uints

WLess(a, b) == a[1] < b[1] \/ (a[1] = b[1] /\ a[2] < b[2])

WLeq(a, b) == a = b \/ WLess(a, b)

WMin(a, b) == IF WLess(b, a) THEN b ELSE a

WNat(k) == <<0, k>>

\* w % m
WMod(w, m) == ((w[1] % m) * (1000000 % m) + w[2]) % m

\* a - b, for a >= b
WSub(a, b) ==
  IF a[2] >= b[2] THEN <<a[1] - b[1], a[2] - b[2]>>
                  ELSE <<a[1] - b[1] - 1, a[2] + 1000000 - b[2]>>

\* ----------------------------------------------------------------- rolls

\* roll32: float32(uint32(runtime_rand())<<8>>8) / (1 << 24)
RollBits == 24

RollMax == 2^RollBits - 1

\* ----------------------------------------------------------------- bounds

\* the rolls tried are 0, the largest roll, and the roll that is exactly the
\* threshold of stored value RollPivot (it fails there and succeeds below)
RollPivot == 2

\* goroutines calling IncrementAt on one Count16x4, and the calls they make
\* in all
NProcs == 2

MaxCalls == 2

MaxOutOfRange == 1

MaxResets == 1

MaxHeap == 4

MaxHeapCount == 2

MaxK == 1

MaxTopKUpdates == 2

MaxStream == 6

MaxStreamResets == 2

MaxStreamK == 3

MaxCycle == 4

\* the distinct keys given to a default sketch
MaxKeys == 3

\* a sketch is held row by row up to this depth and width, takes MaxUpdates
\* UpdateHash calls, and is offered the hashes whose halves are 0 .. MaxHalf
MaxDepth == 4

MaxWidth == 8

MaxUpdates == 2

MaxHalf == 1

\* a 16-bit counter is followed from 0 up to stored value MaxStored16, and
\* from MaxUint16 - StartBelowMax up to MaxUint16
MaxStored16 == 6

StartBelowMax == 2

\* ------------------------------------------------------------- constants

MaxUint8 == 255

MaxUint16 == 65535

MaxCount8 == 101681

MaxCount16 == <<2458, 655843>>

stripe == 4

\* math.MaxInt32
MaxInt32 == <<2147, 483647>>

\* ^uint32(0)
MaxUint32 == <<4294, 967295>>

\* --------------------------------------------------- lookup tables, Count8

\* n8[i] = uint(n(float64(i), 31)), n8[1] = 1; entry i is at position i + 1
n8Table ==
  << 0, 1, 2, 3, 4, 5, 6, 7, 8, 10, 11, 12, 14, 15, 17, 18, 20, 22, 23, 25, 27,
     29, 31, 33, 35, 37, 39, 42, 44, 46, 49, 51, 54, 57, 60, 63, 66, 69, 72, 75,
     79, 82, 86, 90, 94, 98, 102, 106, 111, 115, 120, 125, 130, 135, 141, 146,
     152, 158, 164, 170, 177, 184, 190, 198, 205, 213, 220, 229, 237, 246, 255,
     264, 273, 283, 293, 304, 315, 326, 337, 349, 362, 374, 387, 401, 415, 429,
     444, 459, 475, 492, 508, 526, 544, 562, 581, 601, 622, 643, 665, 687, 710,
     734, 759, 784, 811, 838, 866, 895, 925, 955, 987, 1020, 1054, 1089, 1125,
     1163, 1201, 1241, 1282, 1324, 1368, 1413, 1460, 1508, 1557, 1609, 1662,
     1716, 1773, 1831, 1891, 1953, 2017, 2083, 2151, 2222, 2294, 2369, 2447,
     2527, 2609, 2694, 2782, 2873, 2967, 3064, 3163, 3266, 3373, 3483, 3596,
     3713, 3834, 3958, 4087, 4220, 4357, 4499, 4645, 4796, 4951, 5112, 5278,
     5449, 5626, 5809, 5997, 6192, 6392, 6600, 6813, 7034, 7262, 7497, 7740,
     7991, 8250, 8517, 8793, 9077, 9371, 9675, 9988, 10311, 10644, 10989, 11344,
     11711, 12090, 12481, 12885, 13301, 13731, 14175, 14634, 15107, 15595,
     16099, 16620, 17157, 17711, 18283, 18874, 19484, 20114, 20764, 21434,
     22127, 22842, 23579, 24341, 25127, 25939, 26777, 27641, 28534, 29456,
     30407, 31389, 32402, 33448, 34528, 35643, 36794, 37982, 39208, 40474,
     41781, 43129, 44522, 45959, 47442, 48974, 50555, 52187, 53871, 55610,
     57405, 59257, 61170, 63144, 65182, 67286, 69457, 71699, 74013, 76401,
     78867, 81412, 84039, 86751, 89551, 92440, 95423, 98502, 101681 >>

\* d8[i] = float32(1 / (n(i+1, 31) - n(i, 31))) as a count of rolls, d8[255] = 0
d8Table ==
  << 16777216, 16252928, 15745024, 15252992, 14776336, 14314576, 13867245,
     13433894, 13014084, 12607394, 12213413, 11831744, 11462002, 11103814,
     10756820, 10420670, 10095024, 9779554, 9473943, 9177882, 8891074, 8613228,
     8344064, 8083312, 7830709, 7585999, 7348937, 7119283, 6896805, 6681280,
     6472490, 6270225, 6074280, 5884459, 5700569, 5522427, 5349851, 5182668,
     5020710, 4863812, 4711818, 4564574, 4421931, 4283746, 4149879, 4020195,
     3894564, 3772859, 3654957, 3540740, 3430092, 3322901, 3219061, 3118465,
     3021013, 2926606, 2835150, 2746551, 2660722, 2577574, 2497025, 2418993,
     2343399, 2270168, 2199226, 2130500, 2063922, 1999424, 1936942, 1876413,
     1817775, 1760969, 1705939, 1652629, 1600984, 1550953, 1502486, 1455533,
     1410048, 1365984, 1323297, 1281944, 1241883, 1203074, 1165478, 1129057,
     1093774, 1059594, 1026481, 994404, 963329, 933225, 904061, 875810, 848441,
     821927, 796242, 771359, 747254, 723902, 701280, 679365, 658135, 637569,
     617645, 598343, 579645, 561531, 543983, 526984, 510516, 494562, 479107,
     464135, 449631, 435580, 421968, 408781, 396007, 383632, 371643, 360029,
     348779, 337879, 327321, 317092, 307183, 297583, 288284, 279275, 270548,
     262093, 253903, 245968, 238282, 230835, 223622, 216634, 209864, 203306,
     196952, 190798, 184835, 179059, 173464, 168043, 162791, 157704, 152776,
     148002, 143377, 138896, 134556, 130351, 126277, 122331, 118508, 114805,
     111217, 107742, 104375, 101113, 97954, 94892, 91927, 89054, 86271, 83575,
     80964, 78434, 75983, 73608, 71308, 69080, 66921, 64830, 62804, 60841,
     58940, 57098, 55314, 53585, 51911, 50288, 48717, 47195, 45720, 44291,
     42907, 41566, 40267, 39009, 37790, 36609, 35465, 34357, 33283, 32243,
     31235, 30259, 29314, 28398, 27510, 26651, 25818, 25011, 24229, 23472,
     22739, 22028, 21340, 20673, 20027, 19401, 18795, 18208, 17639, 17087,
     16553, 16036, 15535, 15050, 14579, 14124, 13682, 13255, 12841, 12439,
     12051, 11674, 11309, 10956, 10613, 10282, 9961, 9649, 9348, 9056, 8773,
     8499, 8233, 7976, 7727, 7485, 7251, 7025, 6805, 6592, 6386, 6187, 5994,
     5806, 5625, 5449, 5279, 0 >>

n8(c) == n8Table[c + 1]

\* d8 with the last entry computed like the others instead of set to 0
d8_nonzero(c) == IF c = MaxUint8 THEN d8Table[MaxUint8] ELSE d8Table[c + 1]

d8(c) == d8Table[c + 1]

\* revision f64: n8[i] = n(float64(i), 32) as float64; the table holds uint(n8[i])
n8Table_f64 ==
  << 0, 1, 2, 3, 4, 5, 6, 7, 8, 10, 11, 12, 14, 15, 17, 18, 20, 21, 23, 25, 27,
     29, 30, 32, 34, 37, 39, 41, 43, 46, 48, 51, 53, 56, 59, 61, 64, 67, 71, 74,
     77, 80, 84, 88, 91, 95, 99, 103, 108, 112, 117, 121, 126, 131, 136, 141,
     147, 152, 158, 164, 170, 177, 183, 190, 197, 204, 211, 219, 227, 235, 243,
     252, 261, 270, 279, 289, 299, 310, 320, 331, 343, 354, 367, 379, 392, 405,
     419, 433, 447, 462, 478, 494, 510, 527, 545, 563, 581, 601, 620, 641, 662,
     683, 706, 729, 753, 777, 803, 829, 856, 883, 912, 941, 972, 1003, 1036,
     1069, 1103, 1139, 1176, 1213, 1252, 1292, 1334, 1377, 1421, 1466, 1513,
     1561, 1611, 1662, 1715, 1770, 1826, 1884, 1944, 2006, 2070, 2135, 2203,
     2273, 2345, 2419, 2496, 2575, 2656, 2740, 2827, 2916, 3008, 3104, 3202,
     3303, 3407, 3514, 3625, 3739, 3857, 3979, 4104, 4233, 4367, 4504, 4646,
     4792, 4943, 5099, 5259, 5424, 5595, 5771, 5952, 6139, 6332, 6531, 6736,
     6947, 7165, 7390, 7622, 7862, 8108, 8363, 8625, 8896, 9175, 9462, 9759,
     10065, 10380, 10706, 11041, 11388, 11744, 12112, 12492, 12883, 13287,
     13703, 14132, 14575, 15032, 15502, 15988, 16488, 17005, 17537, 18086,
     18652, 19236, 19838, 20459, 21100, 21760, 22441, 23143, 23868, 24615,
     25385, 26179, 26998, 27843, 28714, 29612, 30539, 31494, 32479, 33495,
     34543, 35624, 36738, 37887, 39072, 40294, 41554, 42854, 44194, 45576,
     47001, 48471, 49987, 51550, 53162, 54824, 56538, 58306, 60129, 62009,
     63948, 65948, 68009, 70136, 72328, 74590, 76922, 79327, 81806 >>

\* revision f64: delta = 1 / (n8[c+1] - n8[c]) as a count of rolls, for c < 255
delta8Table_f64 ==
  << 16777216, 16268816, 15775822, 15297766, 14834198, 14384677, 13948777,
     13526087, 13116206, 12718745, 12333328, 11959591, 11597179, 11245750,
     10904969, 10574516, 10254076, 9943346, 9642033, 9349850, 9066521, 8791778,
     8525361, 8267017, 8016501, 7773577, 7538014, 7309589, 7088086, 6873296,
     6665014, 6463044, 6267194, 6077279, 5893119, 5714540, 5541372, 5373452,
     5210620, 5052722, 4899610, 4751137, 4607163, 4467552, 4332171, 4200894,
     4073594, 3950152, 3830450, 3714376, 3601819, 3492673, 3386834, 3284203,
     3184682, 3088176, 2994595, 2903850, 2815854, 2730526, 2647782, 2567547,
     2489742, 2414295, 2341135, 2270191, 2201398, 2134689, 2070001, 2007274,
     1946448, 1887464, 1830268, 1774806, 1721024, 1668872, 1618300, 1569260,
     1521707, 1475595, 1430880, 1387520, 1345474, 1304702, 1265165, 1226827,
     1189650, 1153600, 1118643, 1084745, 1051874, 1019999, 989090, 959117,
     930053, 901870, 874540, 848039, 822341, 797422, 773257, 749825, 727103,
     705070, 683704, 662986, 642895, 623414, 604522, 586204, 568440, 551214,
     534511, 518314, 502607, 487377, 472608, 458286, 444399, 430932, 417874,
     405211, 392932, 381025, 369479, 358282, 347425, 336897, 326688, 316789,
     307189, 297880, 288854, 280100, 271613, 263382, 255401, 247661, 240156,
     232879, 225822, 218979, 212343, 205909, 199669, 193618, 187751, 182062,
     176545, 171195, 166007, 160977, 156099, 151368, 146781, 142334, 138020,
     133838, 129782, 125850, 122036, 118338, 114752, 111275, 107903, 104633,
     101462, 98388, 95406, 92515, 89712, 86993, 84357, 81801, 79322, 76918,
     74587, 72327, 70135, 68010, 65949, 63951, 62013, 60134, 58312, 56545,
     54831, 53170, 51558, 49996, 48481, 47012, 45587, 44206, 42866, 41567,
     40308, 39086, 37902, 36753, 35640, 34560, 33512, 32497, 31512, 30557,
     29631, 28733, 27863, 27018, 26200, 25406, 24636, 23889, 23165, 22464,
     21783, 21123, 20483, 19862, 19260, 18677, 18111, 17562, 17030, 16514,
     16013, 15528, 15057, 14601, 14159, 13730, 13314, 12910, 12519, 12140,
     11772, 11415, 11069, 10734, 10409, 10093, 9787, 9491, 9203, 8924, 8654,
     8392, 8137, 7891, 7652, 7420, 7195, 6977, 6766 >>

n8_f64(c) == n8Table_f64[c + 1]

delta8_f64(c) == delta8Table_f64[c + 1]

\* -------------------------------------------------- lookup tables, Count16

\* The 65536 entries of n16 and d16 are held for the stored values the model
\* follows: 0..23 (Low) and 65528..65535 (High).

\* n16[i] = uint(n(float64(i), 5000)), n16[1] = 1
n16Low ==
  << <<0, 0>>, <<0, 1>>, <<0, 2>>, <<0, 3>>, <<0, 4>>, <<0, 5>>, <<0, 6>>,
     <<0, 7>>, <<0, 8>>, <<0, 9>>, <<0, 10>>, <<0, 11>>, <<0, 12>>, <<0, 13>>,
     <<0, 14>>, <<0, 15>>, <<0, 16>>, <<0, 17>>, <<0, 18>>, <<0, 19>>,
     <<0, 20>>, <<0, 21>>, <<0, 22>>, <<0, 23>> >>

n16High ==
  << <<2455, 216470>>, <<2455, 707514>>, <<2456, 198657>>, <<2456, 689898>>,
     <<2457, 181236>>, <<2457, 672674>>, <<2458, 164209>>, <<2458, 655843>> >>

\* d16[i] = float32(1 / (n(i+1, 5000) - n(i, 5000))) as a count of rolls; the
\* loop stops at len - 1, so d16[65535] keeps its zero value
d16Low ==
  << 16777216, 16773861, 16770507, 16767154, 16763801, 16760449, 16757097,
     16753747, 16750397, 16747047, 16743698, 16740350, 16737003, 16733656,
     16730310, 16726965, 16723620, 16720276, 16716933, 16713590, 16710248,
     16706906, 16703566, 16700226 >>

d16High ==
  << 35, 35, 35, 35, 35, 35, 35, 0 >>

HighBase == MaxUint16 + 1 - Len(n16High)

n16(c) == IF c >= HighBase THEN n16High[c - HighBase + 1] ELSE n16Low[c + 1]

\* d16 with the loop running over the last entry too
d16_nonzero(c) ==
  IF c >= HighBase THEN d16High[Len(d16High) - 1] ELSE d16Low[c + 1]

d16(c) == IF c >= HighBase THEN d16High[c - HighBase + 1] ELSE d16Low[c + 1]

\* revision f64: the table holds uint(n16[i]); there is no special case for
\* i = 1 and n(1, 5000) = 0.99999999999989 truncates to 0
n16Low_f64 ==
  << <<0, 0>>, <<0, 0>>, <<0, 2>>, <<0, 3>>, <<0, 4>>, <<0, 5>>, <<0, 6>>,
     <<0, 7>>, <<0, 8>>, <<0, 9>>, <<0, 10>>, <<0, 11>>, <<0, 12>>, <<0, 13>>,
     <<0, 14>>, <<0, 15>>, <<0, 16>>, <<0, 17>>, <<0, 18>>, <<0, 19>>,
     <<0, 20>>, <<0, 21>>, <<0, 22>>, <<0, 23>> >>

n16High_f64 ==
  << <<2455, 216470>>, <<2455, 707514>>, <<2456, 198657>>, <<2456, 689898>>,
     <<2457, 181236>>, <<2457, 672674>>, <<2458, 164209>>, <<2458, 655843>> >>

\* revision f64: delta = 1 / (n16[c+1] - n16[c]) as a count of rolls, c < 65535
delta16Low_f64 ==
  << 16777217, 16773862, 16770508, 16767154, 16763801, 16760449, 16757098,
     16753747, 16750397, 16747048, 16743699, 16740351, 16737003, 16733657,
     16730311, 16726965, 16723621, 16720277, 16716933, 16713590, 16710248,
     16706907, 16703566, 16700226 >>

delta16High_f64 ==
  << 35, 35, 35, 35, 35, 35, 35 >>

n16_f64(c) == IF c >= HighBase THEN n16High_f64[c - HighBase + 1] ELSE n16Low_f64[c + 1]

delta16_f64(c) ==
  IF c >= HighBase THEN delta16High_f64[c - HighBase + 1] ELSE delta16Low_f64[c + 1]

\* ------------------------------------------------------------------ state

VARIABLES
  rev,      \* the revision of src/count.go the counters are built from
  c8,       \* a Count8: its stored value
  pre8,     \* the stored value c8 held when Increment was last called, -1 before
  ret8,     \* what that Increment returned
  c16,      \* a Count16: its stored value
  pre16,    \* as pre8
  ret16,    \* as ret8 (a wide uint)
  word,     \* a Count16x4: the atomic 64-bit word, as its four 16-bit slots
  proc,     \* per goroutine: where its IncrementAt call stands, and its locals
  ncalls,   \* the IncrementAt calls made so far, on any slot in range
  pret,     \* what the last call to return returned
  made,     \* per slot: the IncrementAt calls made on it
  swaps,    \* per slot: the calls whose compare-and-swap succeeded
  advances, \* per slot: the calls whose compare-and-swap installed counter + 1
  retries,  \* the compare-and-swaps that failed
  cleared,  \* per slot: the stored values Reset has replaced, summed
  rret,     \* what the last Count16x4.Reset returned
  nresets,  \* the Count16x4.Reset calls made
  ocalls,   \* the IncrementAt and EstimateAt calls made with a slot outside 0 .. 3
  ctor,     \* the last constructor call: which one, and its two arguments
  sk,       \* what it returned: the error, or the sketch's depth and width
  counts,   \* the sketch's rows of Count16x4 words (<<>> when none is held)
  total,    \* the sketch's total
  fault,    \* a run-time panic was raised
  nupd,     \* the UpdateHash calls made on the sketch
  calls,    \* per hash: the UpdateHash calls since construction or Reset
  adv,      \* per hash: those of them whose roll advanced the counter in every row
  uret,     \* what the last UpdateHash returned
  cret,     \* what the last CountHash returned
  skrev,    \* the revision of the sketch: src/cms.go or src/unnamed/part_000
  uflag,    \* what the last UpdateHash of part_000 returned (updated bool)
  uproc,    \* per goroutine: where its UpdateHash call stands, and its locals
  started,  \* the UpdateHash calls begun since construction or the last Reset
  completed, \* those of them that returned
  heap,     \* a minheap: its entries, index 0 first
  hcap,     \* cap(t.heap) of the TopK
  hll,      \* the hashes inserted into the TopK's HyperLogLog sketch
  tproc,    \* per goroutine: where its TopK.Update call stands, and its locals
  kgiven,   \* the k given to NewTopK or to the last TopK.Reset
  tupd,     \* the TopK.Update calls made
  tresets,  \* the TopK.Reset calls made
  mu,       \* t.mu: "free", or the call that holds it
  rproc,    \* where the TopK.Reset call stands, its locals and what it returned
  vproc,    \* where the TopK.Values call stands, and its output slice
  vret,     \* what the last TopK.Values call returned
  offered,  \* per hash: the Update calls made with it since the last Reset
  missed,   \* some Update since the last Reset left a counter of its hash alone
  tmin,     \* src/topk.go: the atomic min, the root's Count as insert last stored it
  tsize     \* src/topk.go: the atomic size, the heap's length as insert last stored it

countVars == <<rev, c8, pre8, ret8, c16, pre16, ret16>>

resetVars == <<cleared, rret, nresets>>

packedVars == <<word, proc, ncalls, pret, made, swaps, advances, retries, resetVars, ocalls>>

cmsVars == <<ctor, sk, counts, total, fault, nupd, calls, adv, uret, cret, skrev, uflag,
             uproc, started, completed>>

heapVars == <<heap>>

topkVars == <<hcap, hll, tproc, kgiven, tupd, tresets, mu, rproc, vproc, vret, offered, missed,
              tmin, tsize>>

vars == <<countVars, packedVars, cmsVars, heapVars, topkVars>>

Revisions == {"rand", "roll", "f64"}

NoCall == 0 - 1

Rolls8 == {0, d8(RollPivot), RollMax}

Rolls16 == {0, d16(RollPivot), RollMax}

\* ---------------------------------------------------------------- Count8

\* revisions rand and roll: func (c Count8) Estimate() uint { return n8[c] }
Count8_Estimate(c) == n8(c)

\* revision f64: return uint(n8[c])
Count8_Estimate_f64(c) == n8_f64(c)

\* revision roll: if roll32() < d8[*c] { (*c)++ }; return n8[*c]
Count8_Increment(c, roll) ==
  LET c1 == IF roll < d8(c) THEN (c + 1) % (MaxUint8 + 1) ELSE c
  IN  [c |-> c1, ret |-> n8(c1)]

\* revision rand: the overflow check returns MaxCount8 before any roll
Count8_Increment_rand(c, roll) ==
  IF c >= MaxUint8
    THEN [c |-> c, ret |-> MaxCount8]
    ELSE LET c1 == IF roll < d8(c) THEN (c + 1) % (MaxUint8 + 1) ELSE c
         IN  [c |-> c1, ret |-> n8(c1)]

\* revision f64: t0 := n8[*c]; t1 := n8[*c+1] (the index is a uint8 and wraps);
\* at the maximum return uint(t0); otherwise roll, and return uint(t1)
Count8_Increment_f64(c, roll) ==
  LET next == (c + 1) % (MaxUint8 + 1)
  IN  IF c >= MaxUint8
        THEN [c |-> c, ret |-> n8_f64(c)]
        ELSE [c |-> IF roll < delta8_f64(c) THEN next ELSE c, ret |-> n8_f64(next)]

\* --------------------------------------------------------------- Count16

Count16_Estimate(c) == n16(c)

Count16_Estimate_f64(c) == n16_f64(c)

\* revision roll: if roll32() < d16[*c] { (*c)++ }; return n16[*c]
Count16_Increment(c, roll) ==
  LET c1 == IF roll < d16(c) THEN (c + 1) % (MaxUint16 + 1) ELSE c
  IN  [c |-> c1, ret |-> n16(c1)]

\* revision rand
Count16_Increment_rand(c, roll) ==
  IF c >= MaxUint16
    THEN [c |-> c, ret |-> MaxCount16]
    ELSE LET c1 == IF roll < d16(c) THEN (c + 1) % (MaxUint16 + 1) ELSE c
         IN  [c |-> c1, ret |-> n16(c1)]

\* revision f64
Count16_Increment_f64(c, roll) ==
  LET next == (c + 1) % (MaxUint16 + 1)
  IN  IF c >= MaxUint16
        THEN [c |-> c, ret |-> n16_f64(c)]
        ELSE [c |-> IF roll < delta16_f64(c) THEN next ELSE c, ret |-> n16_f64(next)]

\* the stored values of a 16-bit counter the tables of the model cover
Followed16(c) == c < MaxStored16 \/ c >= MaxUint16 - StartBelowMax

\* Estimate() of the revision the counter is built from
Estimate8(r, c) == IF r = "f64" THEN Count8_Estimate_f64(c) ELSE Count8_Estimate(c)

Estimate16(r, c) == IF r = "f64" THEN Count16_Estimate_f64(c) ELSE Count16_Estimate(c)

\* ------------------------------------------------------------- Count16x4

Slots == 0 .. 3

ZeroWord == <<0, 0, 0, 0>>

\* bitwise or of two naturals
RECURSIVE BitOr(_, _)
BitOr(a, b) ==
  IF a = 0 THEN b
  ELSE IF b = 0 THEN a
  ELSE (IF a % 2 = 1 \/ b % 2 = 1 THEN 1 ELSE 0) + 2 * BitOr(a \div 2, b \div 2)

\* uint16(loaded >> shft), shft = i * 16: slot i is position i + 1 of the word
SlotOf(w, i) == w[i + 1]

\* uint64(counter) << shft
Shl16(counter, i) == [j \in 1 .. 4 |-> IF j = i + 1 THEN counter ELSE 0]

\* loaded & ^(0xFFFF << shft)
ClearSlot(w, i) == [j \in 1 .. 4 |-> IF j = i + 1 THEN 0 ELSE w[j]]

WordOr(a, b) == [j \in 1 .. 4 |-> BitOr(a[j], b[j])]

\* the word with the other three slots lost
Pack_dropRest(counter, i, loaded) == Shl16(counter, i)

\* updated := (uint64(counter) << shft) | (loaded & ^(0xFFFF << shft))
Pack(counter, i, loaded) == WordOr(Shl16(counter, i), ClearSlot(loaded, i))

\* a compare-and-swap that never succeeds
CompareAndSwap_never(current, old) == FALSE

\* a store that does not compare
CompareAndSwap_blind(current, old) == TRUE

\* c.v.CompareAndSwap(loaded, updated) succeeds when the word still is loaded
CompareAndSwap(current, old) == current = old

\* estimate16x4(v)
estimate16x4(w) == [j \in 1 .. 4 |-> n16(w[j])]

\* an EstimateAt that wraps the slot index around
EstimateAt_wraps(w, i) == estimate16x4(w)[(i % 4) + 1]

\* EstimateAt(i)
EstimateAt(w, i) == IF i < 0 \/ i > 3 THEN WNat(0) ELSE estimate16x4(w)[i + 1]

Procs == 1 .. NProcs

Idle == [pc |-> "idle", slot |-> 0, roll |-> 0,
         loaded |-> ZeroWord, updated |-> ZeroWord, est |-> WNat(0)]

Bump(f, i) == [f EXCEPT ![i] = @ + 1]

\* IncrementAt is called with slot i: out of range it returns 0 at once; in the
\* revision roll it draws the call's one roll and enters incrementAt
IncrementAt_Call(p, i) ==
  /\ proc[p].pc = "idle"
  /\ IF i < 0 \/ i > 3
       THEN /\ ocalls < MaxOutOfRange
            /\ ocalls' = ocalls + 1
            /\ pret' = WNat(0)
            /\ UNCHANGED <<proc, made, ncalls>>
       ELSE /\ ncalls < MaxCalls
            /\ ncalls' = ncalls + 1
            /\ \E roll \in (IF rev = "roll" THEN Rolls16 ELSE {0}) :
                 proc' = [proc EXCEPT ![p] = [Idle EXCEPT !.pc = "load", !.slot = i, !.roll = roll]]
            /\ made' = Bump(made, i)
            /\ UNCHANGED <<pret, ocalls>>
  /\ UNCHANGED <<word, swaps, advances, retries, resetVars, countVars, cmsVars, heapVars, topkVars>>

\* revision roll, incrementAt: loaded := c.v.Load(); if roll >= d16[counter]
\* return n16[counter]; else counter++ and pack it back
incrementAt_Load(p) ==
  /\ rev = "roll"
  /\ proc[p].pc = "load"
  /\ LET i       == proc[p].slot
         counter == SlotOf(word, i)
         next    == (counter + 1) % (MaxUint16 + 1)
     IN  IF proc[p].roll >= d16(counter)
           THEN /\ proc' = [proc EXCEPT ![p] = Idle]
                /\ pret' = n16(counter)
           ELSE /\ proc' = [proc EXCEPT ![p] = [@ EXCEPT !.pc = "cas", !.loaded = word,
                                                  !.updated = Pack(next, i, word),
                                                  !.est = n16(next)]]
                /\ UNCHANGED pret
  /\ UNCHANGED <<word, ncalls, made, swaps, advances, retries, resetVars, ocalls, countVars, cmsVars, heapVars, topkVars>>

\* revision rand, IncrementAt: loaded := c.v.Load(); counter.Increment() on the
\* local copy with a fresh roll; pack the (possibly unchanged) counter back
IncrementAt_Load_rand(p) ==
  /\ rev = "rand"
  /\ proc[p].pc = "load"
  /\ \E roll \in Rolls16 :
       LET i   == proc[p].slot
           res == Count16_Increment_rand(SlotOf(word, i), roll)
       IN  proc' = [proc EXCEPT ![p] = [@ EXCEPT !.pc = "cas", !.loaded = word,
                                          !.updated = Pack(res.c, i, word),
                                          !.est = res.ret]]
  /\ UNCHANGED <<word, ncalls, pret, made, swaps, advances, retries, resetVars, ocalls,
                 countVars, cmsVars, heapVars, topkVars>>

\* if c.v.CompareAndSwap(loaded, updated) { return ... }, else around the loop
IncrementAt_CAS(p) ==
  /\ proc[p].pc = "cas"
  /\ LET i == proc[p].slot
     IN  IF CompareAndSwap(word, proc[p].loaded)
           THEN /\ word' = proc[p].updated
                /\ proc' = [proc EXCEPT ![p] = Idle]
                /\ pret' = proc[p].est
                /\ swaps' = Bump(swaps, i)
                /\ advances' = IF SlotOf(proc[p].updated, i) # SlotOf(proc[p].loaded, i)
                                 THEN Bump(advances, i) ELSE advances
                /\ UNCHANGED retries
           ELSE /\ proc' = [proc EXCEPT ![p] = [@ EXCEPT !.pc = "load"]]
                /\ retries' = retries + 1
                /\ UNCHANGED <<word, pret, swaps, advances>>
  /\ UNCHANGED <<ncalls, made, resetVars, ocalls, countVars, cmsVars, heapVars, topkVars>>

\* a call of EstimateAt(i) by a goroutine that has no IncrementAt under way
EstimateAt_Call(p, i) ==
  /\ proc[p].pc = "idle"
  /\ pret' = EstimateAt(word, i)
  /\ IF i < 0 \/ i > 3
       THEN ocalls < MaxOutOfRange /\ ocalls' = ocalls + 1
       ELSE UNCHANGED ocalls
  /\ UNCHANGED <<word, proc, ncalls, made, swaps, advances, retries, resetVars,
                 countVars, cmsVars, heapVars, topkVars>>

\* an exchange that hands back the value it stored
Swap_returnsNew(old, new) == new

\* c.v.Swap(new): the value the word held
Swap(old, new) == old

\* Reset(): estimate16x4(c.v.Swap(0))
Count16x4_Reset ==
  /\ nresets < MaxResets
  /\ nresets' = nresets + 1
  /\ rret' = estimate16x4(Swap(word, ZeroWord))
  /\ word' = ZeroWord
  /\ cleared' = [i \in Slots |-> cleared[i] + SlotOf(word, i)]
  /\ UNCHANGED <<proc, ncalls, pret, made, swaps, advances, retries, ocalls,
                 countVars, cmsVars, heapVars, topkVars>>

\* ------------------------------------------------- the counters' actions

Step8(res) ==
  /\ pre8' = c8
  /\ c8' = res.c
  /\ ret8' = res.ret
  /\ UNCHANGED <<rev, c16, pre16, ret16, packedVars, cmsVars, heapVars, topkVars>>

Step16(res) ==
  /\ pre16' = c16
  /\ c16' = res.c
  /\ ret16' = res.ret
  /\ UNCHANGED <<rev, c8, pre8, ret8, packedVars, cmsVars, heapVars, topkVars>>

Count8IncrementRoll ==
  /\ rev = "roll"
  /\ \E roll \in Rolls8 : Step8(Count8_Increment(c8, roll))

Count8IncrementRand ==
  /\ rev = "rand"
  /\ \E roll \in Rolls8 : Step8(Count8_Increment_rand(c8, roll))

Count8IncrementF64 ==
  /\ rev = "f64"
  /\ \E roll \in Rolls8 : Step8(Count8_Increment_f64(c8, roll))

Count16IncrementRoll ==
  /\ rev = "roll"
  /\ Followed16(c16)
  /\ \E roll \in Rolls16 : Step16(Count16_Increment(c16, roll))

Count16IncrementRand ==
  /\ rev = "rand"
  /\ Followed16(c16)
  /\ \E roll \in Rolls16 : Step16(Count16_Increment_rand(c16, roll))

Count16IncrementF64 ==
  /\ rev = "f64"
  /\ Followed16(c16)
  /\ \E roll \in Rolls16 : Step16(Count16_Increment_f64(c16, roll))

\* ---------------------------------------------------------------- CountMin

\* uint32(e): e modulo 2^32, for e < 2^33
U32(e) == IF WLess(MaxUint32, e) THEN WSub(e, <<4294, 967296>>) ELSE e

NoError == ""

\* a nil *CountMin
NoSketch == [live |-> FALSE, err |-> NoError, depth |-> 0, width |-> WNat(0)]

NoCounts == <<>>

\* the switch of NewCountMinWithSize, without the cap on the width
SizeError_noWidthCap(depth, width) ==
  IF depth % 2 # 0 THEN "sketch: depth should be divisible by 2"
  ELSE IF depth > 128 THEN "sketch: depth should be less than 128"
  ELSE IF WMod(width, 4) # 0 THEN "sketch: width should be a divisible by 4"
  ELSE NoError

\* the switch of NewCountMinWithSize: the first case that applies
SizeError(depth, width) ==
  IF depth % 2 # 0 THEN "sketch: depth should be divisible by 2"
  ELSE IF depth > 128 THEN "sketch: depth should be less than 128"
  ELSE IF WMod(width, 4) # 0 THEN "sketch: width should be a divisible by 4"
  ELSE IF WLess(MaxInt32, width) THEN "sketch: width should be less than MaxInt32"
  ELSE NoError

\* NewCountMinWithSize(depth, width uint): nil and the error, or the sketch
NewCountMinWithSize(depth, width) ==
  LET err == SizeError(depth, width)
  IN  IF err # NoError
        THEN [NoSketch EXCEPT !.err = err]
        ELSE [live |-> TRUE, err |-> NoError, depth |-> depth, width |-> width]

\* rows of width groups each, not width/stripe
MakeRows_noStripe(depth, width) ==
  [i \in 0 .. depth - 1 |-> [g \in 0 .. width - 1 |-> ZeroWord]]

\* mx := make([][]Count16x4, depth); mx[i] = make([]Count16x4, width/stripe)
MakeRows(depth, width) ==
  [i \in 0 .. depth - 1 |-> [g \in 0 .. (width \div stripe) - 1 |-> ZeroWord]]

\* NewCountMin()
NewCountMin == NewCountMinWithSize(4, WNat(2048))

\* NewCountMin() of part_000
NewCountMin_shared == NewCountMinWithSize(4, WNat(1024))

\* epsilon and confidence are given in thousandths (the float64 nearest to
\* k/1000).  For every k in 1 .. 999 these integer forms equal what the code
\* computes in float64: uint(math.Ceil(math.E / epsilon)) and, with
\* delta := 1 - confidence, uint(math.Ceil(math.Log(1 / delta))).
DerivedWidth(eps) == (271828183 + 100000 * eps - 1) \div (100000 * eps)

\* e^d * 1000 for d = 0 .. 7
EPowMilli == <<1000, 2718, 7389, 20086, 54598, 148413, 403429, 1096633>>

DerivedDepth(conf) ==
  CHOOSE d \in 0 .. 7 :
    /\ 1000 * 1000 <= (1000 - conf) * EPowMilli[d + 1]
    /\ \A k \in 0 .. d - 1 : 1000 * 1000 > (1000 - conf) * EPowMilli[k + 1]

\* NewCountMinWithEstimates(epsilon, confidence float64)
NewCountMinWithEstimates(eps, conf) ==
  IF eps <= 0 \/ eps >= 1000
    THEN [NoSketch EXCEPT !.err = "sketch: value of epsilon should be in range of (0, 1)"]
  ELSE IF conf <= 0 \/ conf >= 1000
    THEN [NoSketch EXCEPT !.err = "sketch: value of delta should be in range of (0, 1)"]
  ELSE NewCountMinWithSize(DerivedDepth(conf), WNat(DerivedWidth(eps)))

\* the sketches the model holds row by row
Held(s) == s.live /\ s.depth <= MaxDepth /\ s.width[1] = 0 /\ s.width[2] <= MaxWidth

Width(s) == s.width[2]

\* an IncrementAt that reports the advance and does not store it
IncrementAt_lostStore(w, i, roll) ==
  IF i < 0 \/ i > 3 THEN [w |-> w, ret |-> WNat(0)]
  ELSE LET counter == SlotOf(w, i)
           next    == (counter + 1) % (MaxUint16 + 1)
       IN  [w |-> w, ret |-> IF roll >= d16(counter) THEN n16(counter) ELSE n16(next)]

\* an IncrementAt that returns the estimate it loaded, not the one it stored
IncrementAt_staleReturn(w, i, roll) ==
  IF i < 0 \/ i > 3 THEN [w |-> w, ret |-> WNat(0)]
  ELSE LET counter == SlotOf(w, i)
           next    == (counter + 1) % (MaxUint16 + 1)
       IN  IF roll >= d16(counter)
             THEN [w |-> w, ret |-> n16(counter)]
             ELSE [w |-> Pack(next, i, w), ret |-> n16(counter)]

\* an IncrementAt whose advance carries into every slot of the word
IncrementAt_everySlot(w, i, roll) ==
  IF i < 0 \/ i > 3 THEN [w |-> w, ret |-> WNat(0)]
  ELSE LET counter == SlotOf(w, i)
           next    == (counter + 1) % (MaxUint16 + 1)
       IN  IF roll >= d16(counter)
             THEN [w |-> w, ret |-> n16(counter)]
             ELSE [w |-> [j \in 1 .. 4 |-> (w[j] + 1) % (MaxUint16 + 1)], ret |-> n16(next)]

\* sequential IncrementAt (revision roll): the word and the value returned
\* when no other goroutine touches the word between the load and the swap
IncrementAt(w, i, roll) ==
  IF i < 0 \/ i > 3 THEN [w |-> w, ret |-> WNat(0)]
  ELSE LET counter == SlotOf(w, i)
           next    == (counter + 1) % (MaxUint16 + 1)
       IN  IF roll >= d16(counter)
             THEN [w |-> w, ret |-> n16(counter)]
             ELSE [w |-> Pack(next, i, w), ret |-> n16(next)]

\* an index that leaves the row out: lo % w
Index_ignoresRow(lo, hi, i, w) == lo % w

\* hx := lo + uint64(i)*hi; idx := int(hx) % w
Index(lo, hi, i, w) == (lo + i * hi) % w

\* int(hx) % w panics when w = 0, in the first row
DividesByZero(s) == s.depth > 0 /\ Width(s) = 0

\* the loop of UpdateHash from row i on: the rows and the running minimum x
RECURSIVE UpdateRows(_, _, _, _, _, _, _, _)
UpdateRows(cnt, depth, w, lo, hi, rolls, i, x) ==
  IF i >= depth THEN [counts |-> cnt, x |-> x]
  ELSE LET idx == Index(lo, hi, i, w)
           g   == idx \div stripe
           r   == IncrementAt(cnt[i][g], idx % stripe, rolls[i])
       IN  UpdateRows([cnt EXCEPT ![i][g] = r.w], depth, w, lo, hi, rolls,
                      i + 1, WMin(x, U32(r.ret)))

\* a CountHash that reads the first row only
CountRows_firstRow(cnt, depth, w, lo, hi, i, x) ==
  IF depth = 0 THEN x
  ELSE LET idx == (lo % w)
       IN  WMin(x, U32(EstimateAt(cnt[0][idx \div stripe], idx % stripe)))

\* the loop of CountHash from row i on: for i := 0; i < c.depth && x > 0; i++
RECURSIVE CountRows(_, _, _, _, _, _, _)
CountRows(cnt, depth, w, lo, hi, i, x) ==
  IF i >= depth \/ x = WNat(0) THEN x
  ELSE LET idx == Index(lo, hi, i, w)
       IN  CountRows(cnt, depth, w, lo, hi, i + 1,
                     WMin(x, U32(EstimateAt(cnt[i][idx \div stripe], idx % stripe))))

\* CountHash(hash) on the sketch as it stands; h = <<lo, hi>>
CountHash(h) == CountRows(counts, sk.depth, Width(sk), h[1], h[2], 0, MaxUint32)

Hashes == (0 .. MaxHalf) \X (0 .. MaxHalf)

\* the rolls drawn inside UpdateHash: one every counter advances on, one none does
SketchRolls == {0, RollMax}

\* the roll drawn in row i finds the counter of h at a value it advances
AdvancesAll(h, rolls) ==
  \A i \in 0 .. sk.depth - 1 :
    LET idx == Index(h[1], h[2], i, Width(sk))
    IN  rolls[i] < d16(SlotOf(counts[i][idx \div stripe], idx % stripe))

\* ---------------------------------------------------- the sketch's actions

Built(c, s) ==
  /\ ctor' = c
  /\ sk' = s
  /\ counts' = IF Held(s) THEN MakeRows(s.depth, Width(s)) ELSE NoCounts
  /\ total' = 0
  /\ UNCHANGED <<fault, nupd, calls, adv, uret, cret, skrev, uflag, uproc, started, completed,
                 countVars, packedVars, heapVars, topkVars>>

DepthInputs == {0, 1, 2, 4, 128, 129, 130}

\* 0, 2, 4, 8, 2^31 - 4, 2^31 - 1, 2^31, 2^31 + 2
WidthInputs == {WNat(0), WNat(2), WNat(4), WNat(8), <<2147, 483644>>, MaxInt32,
                <<2147, 483648>>, <<2147, 483650>>}

EpsInputs == {0 - 1, 0, 1, 340, 680, 1000, 1001}

ConfInputs == {0 - 1, 0, 500, 800, 980, 990, 1000, 1001}

Call_NewCountMin ==
  /\ ~sk.live
  /\ Built([via |-> "default", a |-> 0, b |-> 0],
           IF skrev = "rows" THEN NewCountMin ELSE NewCountMin_shared)

Call_NewCountMinWithSize ==
  /\ ~sk.live
  /\ \E d \in DepthInputs, w \in WidthInputs :
    Built([via |-> "size", a |-> d, b |-> w], NewCountMinWithSize(d, w))

Call_NewCountMinWithEstimates ==
  /\ ~sk.live
  /\ \E e \in EpsInputs, c \in ConfInputs :
    Built([via |-> "estimates", a |-> e, b |-> c], NewCountMinWithEstimates(e, c))

\* a store where the add should be
AddUint64_store(v, delta) == delta

\* atomic.AddUint64(&c.total, 1)
AddUint64(v, delta) == v + delta

\* the rolls of one UpdateHash: src/cms.go draws one inside every IncrementAt,
\* part_000 draws r := roll32() once and hands it to every incrementAt
UpdateRolls(depth) ==
  IF skrev = "rows"
    THEN [0 .. depth - 1 -> SketchRolls]
    ELSE {[i \in 0 .. depth - 1 |-> r] : r \in SketchRolls}

\* UpdateHash(hash).  src/cms.go: the total first, then the rows, returning the
\* least of the estimates IncrementAt returned.  part_000: no total, and the
\* result is whether some row's counter advanced.
UpdateHash(h) ==
  /\ Held(sk)
  /\ ~fault
  /\ \A p \in Procs : uproc[p].pc = "idle"
  /\ nupd < MaxUpdates
  /\ nupd' = nupd + 1
  /\ total' = IF skrev = "rows" THEN AddUint64(total, 1) ELSE total
  /\ started' = started + 1
  /\ IF DividesByZero(sk)
       THEN /\ fault' = TRUE
            /\ UNCHANGED <<counts, calls, adv, uret, uflag, completed>>
       ELSE \E rolls \in UpdateRolls(sk.depth) :
              LET r == UpdateRows(counts, sk.depth, Width(sk), h[1], h[2], rolls, 0, MaxUint32)
              IN  /\ counts' = r.counts
                  /\ IF skrev = "rows"
                       THEN uret' = r.x /\ UNCHANGED uflag
                       ELSE uflag' = (r.counts # counts) /\ UNCHANGED uret
                  /\ calls' = Bump(calls, h)
                  /\ adv' = IF AdvancesAll(h, rolls) THEN Bump(adv, h) ELSE adv
                  /\ completed' = completed + 1
                  /\ UNCHANGED fault
  /\ UNCHANGED <<ctor, sk, cret, skrev, uproc, countVars, packedVars, heapVars, topkVars>>

NoUpdate == [pc |-> "idle", h |-> <<0, 0>>, i |-> 0, x |-> MaxUint32]

\* UpdateHash(hash) of src/cms.go, step by step, of goroutine p: the atomic
\* add to the total ...
UpdateHash_Begin(p, h) ==
  /\ Held(sk)
  /\ ~fault
  /\ skrev = "rows"
  /\ uproc[p].pc = "idle"
  /\ nupd < MaxUpdates
  /\ nupd' = nupd + 1
  /\ total' = AddUint64(total, 1)
  /\ started' = started + 1
  /\ uproc' = [uproc EXCEPT ![p] = [NoUpdate EXCEPT !.pc = "rows", !.h = h]]
  /\ UNCHANGED <<ctor, sk, counts, fault, calls, adv, uret, cret, skrev, uflag, completed,
                 countVars, packedVars, heapVars, topkVars>>

\* ... then row i: the index, and IncrementAt on the row's word, which takes
\* effect at its compare-and-swap ...
UpdateHash_Row(p) ==
  /\ ~fault
  /\ uproc[p].pc = "rows"
  /\ uproc[p].i < sk.depth
  /\ IF Width(sk) = 0
       THEN fault' = TRUE /\ UNCHANGED <<counts, uproc>>
       ELSE \E roll \in SketchRolls :
              LET h   == uproc[p].h
                  i   == uproc[p].i
                  idx == Index(h[1], h[2], i, Width(sk))
                  g   == idx \div stripe
                  r   == IncrementAt(counts[i][g], idx % stripe, roll)
              IN  /\ counts' = [counts EXCEPT ![i][g] = r.w]
                  /\ uproc' = [uproc EXCEPT ![p] = [@ EXCEPT !.i = i + 1,
                                                       !.x = WMin(@, U32(r.ret))]]
                  /\ UNCHANGED fault
  /\ UNCHANGED <<ctor, sk, total, nupd, calls, adv, uret, cret, skrev, uflag, started,
                 completed, countVars, packedVars, heapVars, topkVars>>

\* ... and after the last row, return uint(x)
UpdateHash_Return(p) ==
  /\ ~fault
  /\ uproc[p].pc = "rows"
  /\ uproc[p].i >= sk.depth
  /\ uret' = uproc[p].x
  /\ calls' = Bump(calls, uproc[p].h)
  /\ completed' = completed + 1
  /\ uproc' = [uproc EXCEPT ![p] = NoUpdate]
  /\ UNCHANGED <<ctor, sk, counts, total, fault, nupd, adv, cret, skrev, uflag, started,
                 countVars, packedVars, heapVars, topkVars>>

\* CountTotal()
CountTotal == total

\* CountHash(hash)
Call_CountHash(h) ==
  /\ Held(sk)
  /\ ~fault
  /\ IF DividesByZero(sk)
       THEN fault' = TRUE /\ UNCHANGED cret
       ELSE cret' = CountHash(h) /\ UNCHANGED fault
  /\ UNCHANGED <<ctor, sk, counts, total, nupd, calls, adv, uret, skrev, uflag, uproc, started,
                 completed, countVars, packedVars, heapVars, topkVars>>

\* the hashes of the keys given to a default sketch: <<1, 0>> and <<2049, 0>>
\* index the same counter in every row, <<1, 1>> shares the counter of
\* <<1, 0>> in row 0 only, and <<0, 0>> lies in the word of <<1, 0>> and shares
\* no counter
KeyHashes == {<<0, 0>>, <<1, 0>>, <<2049, 0>>, <<1, 1>>}

\* UpdateHash(hash) of src/cms.go on the sketch of NewCountMin(), for a key
\* that was not updated before: the total, then every row with a roll of its
\* own
Key_UpdateHash(h) ==
  /\ ~fault
  /\ calls[h] = 0
  /\ nupd < MaxKeys
  /\ nupd' = nupd + 1
  /\ total' = AddUint64(total, 1)
  /\ \E rolls \in [0 .. sk.depth - 1 -> SketchRolls] :
       LET r == UpdateRows(counts, sk.depth, Width(sk), h[1], h[2], rolls, 0, MaxUint32)
       IN  /\ counts' = r.counts
           /\ uret' = r.x
  /\ calls' = Bump(calls, h)
  /\ UNCHANGED <<ctor, sk, fault, adv, cret, skrev, uflag, uproc, started, completed,
                 countVars, packedVars, heapVars, topkVars>>

\* CountHash(hash) on the sketch of NewCountMin()
Key_CountHash(h) ==
  /\ ~fault
  /\ cret' = CountHash(h)
  /\ UNCHANGED <<ctor, sk, counts, total, fault, nupd, calls, adv, uret, skrev, uflag, uproc,
                 started, completed, countVars, packedVars, heapVars, topkVars>>

\* Reset(): the total and every word set to zero, with no UpdateHash in flight
CountMin_Reset ==
  /\ Held(sk)
  /\ ~fault
  /\ \A p \in Procs : uproc[p].pc = "idle"
  /\ started' = 0
  /\ completed' = 0
  /\ total' = 0
  /\ counts' = [i \in DOMAIN counts |-> [g \in DOMAIN counts[i] |-> ZeroWord]]
  /\ calls' = [h \in Hashes |-> 0]
  /\ adv' = [h \in Hashes |-> 0]
  /\ UNCHANGED <<ctor, sk, fault, nupd, uret, cret, skrev, uflag, uproc, countVars, packedVars, heapVars, topkVars>>

\* ---------------------------------------------------------------- minheap

\* Go's integer division, which rounds toward zero
GoDiv(a, b) == IF a >= 0 THEN a \div b ELSE 0 - ((0 - a) \div b)

\* h[i], h[j] = h[j], h[i]
Exchange(h, i, j) == [h EXCEPT ![i + 1] = h[j + 1], ![j + 1] = h[i + 1]]

\* func (h minheap) up(j int)
RECURSIVE up(_, _)
up(h, j) ==
  LET i == GoDiv(j - 1, 2)
  IN  IF i = j \/ ~(h[j + 1].Count < h[i + 1].Count)
        THEN h
        ELSE up(Exchange(h, i, j), i)

\* the loop of down from index i on: the heap and the index it stops at
RECURSIVE sift(_, _, _)
sift(h, i, n) ==
  LET j1 == 2 * i + 1
      j2 == j1 + 1
      j  == IF j2 < n /\ h[j2 + 1].Count < h[j1 + 1].Count THEN j2 ELSE j1
  IN  IF j1 >= n \/ j1 < 0 THEN [h |-> h, i |-> i]
      ELSE IF h[i + 1].Count < h[j + 1].Count THEN [h |-> h, i |-> i]
      ELSE sift(Exchange(h, i, j), j, n)

\* func (h minheap) down(at, n int) bool: the heap, and whether i > at
down(h, at, n) ==
  LET r == sift(h, at, n) IN [h |-> r.h, moved |-> r.i > at]

\* func (h *minheap) Push(x TopValue)
Push(h, x) == up(Append(h, x), Len(h))

\* a Pop that takes the last entry and leaves the root
Pop_last(h) == [h |-> SubSeq(h, 1, Len(h) - 1), x |-> h[Len(h)]]

\* func (h *minheap) Pop() TopValue, on a heap that is not empty: the heap
\* left and the entry popped
Pop(h) ==
  LET n == Len(h) - 1
      d == down(Exchange(h, 0, n), 0, n).h
  IN  [h |-> SubSeq(d, 1, n), x |-> d[n + 1]]

\* an Update that stores the count and sifts nothing
Update_noSift(h, i, count) == [h EXCEPT ![i + 1].Count = count]

\* an Update that sifts down only
Update_downOnly(h, i, count) ==
  down([h EXCEPT ![i + 1].Count = count], i, Len(h)).h

\* func (h minheap) Update(i int, count uint32)
Update(h, i, count) ==
  LET set == [h EXCEPT ![i + 1].Count = count]
      d   == down(set, i, Len(h))
  IN  IF ~d.moved THEN up(d.h, i) ELSE d.h

\* func (h *minheap) Reset()
HeapReset(h) == SubSeq(h, 1, 0)

HeapHashes == {<<0, 0>>, <<1, 0>>}

Heap_Push ==
  /\ ~fault
  /\ Len(heap) < MaxHeap
  /\ \E hash \in HeapHashes, c \in 0 .. MaxHeapCount :
       heap' = Push(heap, [hash |-> hash, Count |-> c])
  /\ UNCHANGED <<countVars, packedVars, cmsVars, topkVars>>

\* Pop on an empty heap exchanges h[0] and h[-1]: index out of range
Heap_Pop ==
  /\ ~fault
  /\ IF Len(heap) = 0
       THEN /\ fault' = TRUE
            /\ UNCHANGED heap
       ELSE /\ heap' = Pop(heap).h
            /\ UNCHANGED fault
  /\ UNCHANGED <<ctor, sk, counts, total, nupd, calls, adv, uret, cret, skrev, uflag,
                 uproc, started, completed, countVars, packedVars, topkVars>>

Heap_Update ==
  /\ ~fault
  /\ \E i \in 0 .. Len(heap) - 1, c \in 0 .. MaxHeapCount :
       heap' = Update(heap, i, c)
  /\ UNCHANGED <<countVars, packedVars, cmsVars, topkVars>>

Heap_Reset ==
  /\ ~fault
  /\ heap' = HeapReset(heap)
  /\ UNCHANGED <<countVars, packedVars, cmsVars, topkVars>>

\* ------------------------------------------------------------------- TopK

\* a search that finds no entry
IndexOfHash_none(h, hash) == 0 - 1

\* the index of the first entry of h that carries the hash, or -1
IndexOfHash(h, hash) ==
  IF \E k \in 1 .. Len(h) : h[k].hash = hash
    THEN (CHOOSE k \in 1 .. Len(h) :
            h[k].hash = hash /\ \A m \in 1 .. k - 1 : h[m].hash # hash) - 1
    ELSE 0 - 1

\* a tryInsert that does not turn an item away from a full heap
tryInsert_noSkip(h, cap, value, hash, count) ==
  IF cap = 0 THEN h
  ELSE IF IndexOfHash(h, hash) >= 0 THEN Update(h, IndexOfHash(h, hash), count)
  ELSE Push(IF Len(h) = cap THEN Pop(h).h ELSE h,
            [Value |-> value, hash |-> hash, Count |-> count])

\* a tryInsert that pushes onto a full heap without popping
tryInsert_noPop(h, cap, value, hash, count) ==
  IF cap = 0 THEN h
  ELSE IF Len(h) = cap /\ count < h[1].Count THEN h
  ELSE IF IndexOfHash(h, hash) >= 0 THEN Update(h, IndexOfHash(h, hash), count)
  ELSE Push(h, [Value |-> value, hash |-> hash, Count |-> count])

\* tryInsert(value, hash, count), after t.hll.InsertHash(hash): the heap it
\* leaves
tryInsert(h, cap, value, hash, count) ==
  IF cap = 0 THEN h
  ELSE IF Len(h) = cap /\ count < h[1].Count THEN h
  ELSE IF IndexOfHash(h, hash) >= 0 THEN Update(h, IndexOfHash(h, hash), count)
  ELSE Push(IF Len(h) = cap THEN Pop(h).h ELSE h,
            [Value |-> value, hash |-> hash, Count |-> count])

\* a resize that keeps the entries of a heap whose capacity stays
resize_keeps(h, cap, k) ==
  IF k <= 0 THEN [cap |-> 0, h |-> <<>>]
  ELSE IF k # cap THEN [cap |-> k, h |-> <<>>]
  ELSE [cap |-> cap, h |-> h]

\* resize(k): the capacity and the heap
resize(h, cap, k) ==
  IF k <= 0 THEN [cap |-> 0, h |-> <<>>]
  ELSE IF k # cap THEN [cap |-> k, h |-> <<>>]
  ELSE [cap |-> cap, h |-> HeapReset(h)]

\* era: how often the sketch had been cleared when the count was read
NoTopKCall == [pc |-> "idle", value |-> "", hash |-> <<0, 0>>, count |-> 0, era |-> 0]

\* the sketch of a TopK: NewCountMin() of part_000
TopKDepth == 4

TopKWidth == 1024

\* uint32 of a count that fits an int
Count32(e) == e[1] * 1000000 + e[2]

\* the goroutines that call Update on a TopK
Updaters == {1, 2}

\* the values given to a TopK
TopKValues == {"a", "b", "c", "d"}

\* xxh3.HashString(value) as <<lo, hi>>: the hashes of "b" and "d" index the
\* same counter in every row, at width 1024 and at width 2048, and no other
\* two share a counter
HashString(value) ==
  CASE value = "a" -> <<0, 0>>
    [] value = "b" -> <<1, 0>>
    [] value = "c" -> <<2, 1>>
    [] value = "d" -> <<2049, 0>>

TopKHashes == {HashString(v) : v \in TopKValues}

\* the stored value of the counter of h in row i of a TopK's sketch
TopKStored(cnt, h, i) ==
  LET idx == Index(h[1], h[2], i, TopKWidth)
  IN  SlotOf(cnt[i][idx \div stripe], idx % stripe)

\* nothing is in flight on the TopK
Quiet ==
  /\ \A p \in Updaters : tproc[p].pc = "idle"
  /\ rproc.pc = "idle"
  /\ vproc.pc = "idle"

\* how often Reset has cleared the sketch: a Reset at "cms" has not yet
Clears == tresets - (IF rproc.pc = "cms" THEN 1 ELSE 0)

\* Update(value), outside the mutex: hash the value, UpdateHash with one roll
\* for all rows, and return when no counter advanced
TopK_Update(p, value) ==
  /\ tproc[p].pc = "idle"
  /\ tupd' = tupd + 1
  /\ offered' = [offered EXCEPT ![HashString(value)] = @ + 1]
  /\ \E roll \in SketchRolls :
       LET h == HashString(value)
           r == UpdateRows(counts, TopKDepth, TopKWidth, h[1], h[2],
                           [i \in 0 .. TopKDepth - 1 |-> roll], 0, MaxUint32)
       IN  /\ counts' = r.counts
           /\ missed' = (missed \/ \E i \in 0 .. TopKDepth - 1 :
                                     TopKStored(r.counts, h, i) = TopKStored(counts, h, i))
           /\ tproc' = [tproc EXCEPT ![p] =
                          IF r.counts # counts
                            THEN [pc |-> "count", value |-> value, hash |-> h,
                                  count |-> 0, era |-> 0]
                            ELSE NoTopKCall]
  /\ UNCHANGED <<ctor, sk, total, fault, nupd, calls, adv, uret, cret, skrev, uflag,
                 uproc, started, completed, heap, hcap, hll, kgiven, tresets,
                 mu, rproc, vproc, vret, tmin, tsize, countVars, packedVars>>

\* count := uint32(t.cms.CountHash(hash))
TopK_Update_Count(p) ==
  /\ tproc[p].pc = "count"
  /\ LET x == CountRows(counts, TopKDepth, TopKWidth, tproc[p].hash[1], tproc[p].hash[2],
                        0, MaxUint32)
     IN  tproc' = [tproc EXCEPT ![p] = [@ EXCEPT !.pc = "insert", !.count = Count32(x),
                                                 !.era = Clears]]
  /\ UNCHANGED <<ctor, sk, counts, total, fault, nupd, calls, adv, uret, cret, skrev, uflag,
                 uproc, started, completed, heap, hcap, hll, kgiven, tupd, tresets,
                 mu, rproc, vproc, vret, offered, missed, tmin, tsize, countVars, packedVars>>

\* an InsertHash that inserts nothing
InsertHash_drop(inserted, hash) == inserted

\* t.hll.InsertHash(hash), on the hashes inserted
InsertHash(inserted, hash) == inserted \cup {hash}

\* t.tryInsert(value, hash, count): t.mu.Lock(), the hash inserted into the
\* HyperLogLog sketch, the heap mutation, and the deferred t.mu.Unlock()
TopK_tryInsert(p) ==
  /\ tproc[p].pc = "insert"
  /\ mu = "free"
  /\ hll' = InsertHash(hll, tproc[p].hash)
  /\ heap' = tryInsert(heap, hcap, tproc[p].value, tproc[p].hash, tproc[p].count)
  /\ tproc' = [tproc EXCEPT ![p] = NoTopKCall]
  /\ UNCHANGED <<hcap, kgiven, tupd, tresets, mu, rproc, vproc, vret, offered, missed,
                 tmin, tsize, countVars, packedVars, cmsVars>>

\* t.hll.Estimate(), on the hashes inserted
Estimate(inserted) == Cardinality(inserted)

\* Cardinality()
TopK_Cardinality == Estimate(hll)

\* a call of Cardinality(): t.mu.Lock(), the estimate read, and the deferred
\* t.mu.Unlock(); it writes nothing
TopK_Cardinality_Call ==
  /\ mu = "free"
  /\ TopK_Cardinality >= 0
  /\ UNCHANGED vars

\* h.Clone(&output): the entries of the heap, in the heap's order
Clone(h) == h

\* a sort that leaves the slice as it is
Sorted_asIs(out) == {out}

\* the orders sort.Sort may leave the slice in: every arrangement of its
\* entries in which no entry holds less than the one before it
Sorted(out) ==
  LET n    == Len(out)
      arrs == {[i \in 1 .. n |-> out[f[i]]] :
                 f \in {g \in [1 .. n -> 1 .. n] :
                          \A i, j \in 1 .. n : i # j => g[i] # g[j]}}
  IN  {s \in arrs : \A i \in 1 .. n - 1 : s[i].Count <= s[i + 1].Count}

NoReset == [pc |-> "idle", k |-> 0, out |-> <<>>, n |-> 0]

\* Reset(k), first part: t.mu.Lock(), the heap cloned, the cardinality
\* estimated, and in resize(k) the switch that replaces or empties the heap
TopK_Reset(k) ==
  /\ rproc.pc = "idle"
  /\ mu = "free"
  /\ tresets' = tresets + 1
  /\ mu' = "Reset"
  /\ rproc' = [pc |-> "cms", k |-> k, out |-> Clone(heap), n |-> Estimate(hll)]
  /\ kgiven' = k
  /\ hcap' = resize(heap, hcap, k).cap
  /\ heap' = resize(heap, hcap, k).h
  /\ UNCHANGED <<hll, tproc, tupd, vproc, vret, offered, missed, tmin, tsize, countVars, packedVars,
                 cmsVars>>

\* resize(k), second part, still under the mutex: t.cms.Reset()
TopK_Reset_Sketch ==
  /\ rproc.pc = "cms"
  /\ counts' = [i \in DOMAIN counts |-> [g \in DOMAIN counts[i] |-> ZeroWord]]
  /\ offered' = [h \in TopKHashes |-> 0]
  /\ missed' = FALSE
  /\ rproc' = [rproc EXCEPT !.pc = "hll"]
  /\ UNCHANGED <<ctor, sk, total, fault, nupd, calls, adv, uret, cret, skrev, uflag,
                 uproc, started, completed, heap, hcap, hll, tproc, kgiven, tupd, tresets,
                 mu, vproc, vret, tmin, tsize, countVars, packedVars>>

\* a Reset that returns from resize and does not unlock
TopK_Reset_Unlock_held ==
  /\ rproc.pc = "hll"
  /\ hll' = {}
  /\ mu' = mu
  /\ rproc' = [rproc EXCEPT !.pc = "sort"]
  /\ UNCHANGED <<heap, hcap, tproc, kgiven, tupd, tresets, vproc, vret, offered, missed,
                 tmin, tsize, countVars, packedVars, cmsVars>>

\* resize(k), last part: t.hll = hyperloglog.New(); then t.mu.Unlock()
TopK_Reset_Unlock ==
  /\ rproc.pc = "hll"
  /\ hll' = {}
  /\ mu' = "free"
  /\ rproc' = [rproc EXCEPT !.pc = "sort"]
  /\ UNCHANGED <<heap, hcap, tproc, kgiven, tupd, tresets, vproc, vret, offered, missed,
                 tmin, tsize, countVars, packedVars, cmsVars>>

\* Reset(k), after the mutex: sort.Sort(&output); return output, uint(n)
TopK_Reset_Return ==
  /\ rproc.pc = "sort"
  /\ \E s \in Sorted(rproc.out) : rproc' = [rproc EXCEPT !.pc = "idle", !.out = s]
  /\ UNCHANGED <<heap, hcap, hll, tproc, kgiven, tupd, tresets, mu, vproc, vret, offered,
                 missed, tmin, tsize, countVars, packedVars, cmsVars>>

NoValues == [pc |-> "idle", out |-> <<>>]

\* Values(), under the mutex: the heap cloned into the output slice
TopK_Values ==
  /\ vproc.pc = "idle"
  /\ mu = "free"
  /\ vproc' = [pc |-> "sort", out |-> Clone(heap)]
  /\ UNCHANGED <<heap, hcap, hll, tproc, kgiven, tupd, tresets, mu, rproc, vret, offered,
                 missed, tmin, tsize, countVars, packedVars, cmsVars>>

\* Values(), after the mutex: sort.Sort(&output); return output
TopK_Values_Return ==
  /\ vproc.pc = "sort"
  /\ \E s \in Sorted(vproc.out) : vret' = s
  /\ vproc' = NoValues
  /\ UNCHANGED <<heap, hcap, hll, tproc, kgiven, tupd, tresets, mu, rproc, offered,
                 missed, tmin, tsize, countVars, packedVars, cmsVars>>

\* ------------------------------------------------------ TopK, src/topk.go

\* the sketch of a TopK of src/topk.go: NewCountMin() of src/cms.go
TrackerWidth == 2048

\* a pre-check that compares with the stored minimum only
isTop_minOnly(min, size, maxSize, count) == min <= count

\* isTop(count): t.min.Load() <= count || uint(t.size.Load()) < t.maxSize
isTop(min, size, maxSize, count) == min <= count \/ size < maxSize

\* insert(value, hash, count) under the mutex: the heap it leaves, whether it
\* stored t.size, whether it pushed and stored t.min, and whether it read
\* t.heap[0] of an empty heap (index out of range)
insert(h, maxSize, value, hash, count) ==
  IF Len(h) = maxSize /\ Len(h) = 0
    THEN [h |-> h, fault |-> TRUE, sized |-> FALSE, pushed |-> FALSE]
  ELSE IF Len(h) = maxSize /\ count < h[1].Count
    THEN [h |-> h, fault |-> FALSE, sized |-> FALSE, pushed |-> FALSE]
  ELSE IF IndexOfHash(h, hash) >= 0
    THEN [h |-> Update(h, IndexOfHash(h, hash), count),
          fault |-> FALSE, sized |-> FALSE, pushed |-> FALSE]
  ELSE [h |-> Push(IF Len(h) = maxSize THEN Pop(h).h ELSE h,
                   [Value |-> value, hash |-> hash, Count |-> count]),
        fault |-> FALSE, sized |-> Len(h) # maxSize, pushed |-> TRUE]

\* Update(value), first part: hash the value and
\* count := uint32(t.cms.UpdateHash(hash)), one roll drawn in every row
Tracker_Update(p, value) ==
  /\ ~fault
  /\ tproc[p].pc = "idle"
  /\ tupd' = tupd + 1
  /\ offered' = [offered EXCEPT ![HashString(value)] = @ + 1]
  /\ total' = AddUint64(total, 1)
  /\ \E rolls \in [0 .. TopKDepth - 1 -> SketchRolls] :
       LET h == HashString(value)
           r == UpdateRows(counts, TopKDepth, TrackerWidth, h[1], h[2], rolls, 0, MaxUint32)
       IN  /\ counts' = r.counts
           /\ tproc' = [tproc EXCEPT ![p] =
                          [pc |-> "isTop", value |-> value, hash |-> h,
                           count |-> Count32(U32(r.x)), era |-> Clears]]
  /\ UNCHANGED <<ctor, sk, fault, nupd, calls, adv, uret, cret, skrev, uflag,
                 uproc, started, completed, heap, hcap, hll, kgiven, tresets,
                 mu, rproc, vproc, vret, missed, tmin, tsize, countVars, packedVars>>

\* Update(value), the condition of its if: t.isTop(count)
Tracker_isTop(p) ==
  /\ ~fault
  /\ tproc[p].pc = "isTop"
  /\ tproc' = [tproc EXCEPT ![p] =
                 IF isTop(tmin, tsize, hcap, tproc[p].count)
                   THEN [@ EXCEPT !.pc = "insert"]
                   ELSE NoTopKCall]
  /\ UNCHANGED <<heap, hcap, hll, kgiven, tupd, tresets, mu, rproc, vproc, vret, offered,
                 missed, tmin, tsize, countVars, packedVars, cmsVars>>

\* t.insert(value, hash, count): t.mu.Lock(), the body, and the deferred
\* t.mu.Unlock(); the panic of an index out of range ends the program
Tracker_insert(p) ==
  /\ ~fault
  /\ tproc[p].pc = "insert"
  /\ mu = "free"
  /\ LET r == insert(heap, hcap, tproc[p].value, tproc[p].hash, tproc[p].count)
     IN  /\ heap' = r.h
         /\ fault' = r.fault
         /\ tsize' = IF r.sized THEN Len(heap) ELSE tsize
         /\ tmin' = IF r.pushed THEN r.h[1].Count ELSE tmin
  /\ tproc' = [tproc EXCEPT ![p] = NoTopKCall]
  /\ UNCHANGED <<ctor, sk, counts, total, nupd, calls, adv, uret, cret, skrev, uflag,
                 uproc, started, completed, hcap, hll, kgiven, tupd, tresets,
                 mu, rproc, vproc, vret, offered, missed, countVars, packedVars>>

\* the loop of Values: the entries of the heap with e.Count > 0
Nonzero(h) == SelectSeq(h, LAMBDA e : e.Count > 0)

\* Values(), first part: t.mu.Lock(), the copy, t.mu.Unlock()
Tracker_Values ==
  /\ ~fault
  /\ vproc.pc = "idle"
  /\ mu = "free"
  /\ vproc' = [pc |-> "sort", out |-> Nonzero(heap)]
  /\ UNCHANGED <<heap, hcap, hll, tproc, kgiven, tupd, tresets, mu, rproc, vret, offered,
                 missed, tmin, tsize, countVars, packedVars, cmsVars>>

\* Values(), second part: sort.Sort(&output) and the return
Tracker_Values_Return ==
  /\ ~fault
  /\ vproc.pc = "sort"
  /\ \E s \in Sorted(vproc.out) : vret' = s
  /\ vproc' = NoValues
  /\ UNCHANGED <<heap, hcap, hll, tproc, kgiven, tupd, tresets, mu, rproc, offered,
                 missed, tmin, tsize, countVars, packedVars, cmsVars>>

\* Reset(), first part: t.mu.Lock() and t.cms.Reset()
Tracker_Reset ==
  /\ ~fault
  /\ rproc.pc = "idle"
  /\ mu = "free"
  /\ tresets' = tresets + 1
  /\ mu' = "Reset"
  /\ rproc' = [NoReset EXCEPT !.pc = "heap"]
  /\ total' = 0
  /\ counts' = [i \in DOMAIN counts |-> [g \in DOMAIN counts[i] |-> ZeroWord]]
  /\ offered' = [h \in TopKHashes |-> 0]
  /\ UNCHANGED <<ctor, sk, fault, nupd, calls, adv, uret, cret, skrev, uflag,
                 uproc, started, completed, heap, hcap, hll, tproc, kgiven, tupd,
                 vproc, vret, missed, tmin, tsize, countVars, packedVars>>

\* Reset(), second part: t.heap.Reset() and the deferred t.mu.Unlock()
Tracker_Reset_Heap ==
  /\ ~fault
  /\ rproc.pc = "heap"
  /\ heap' = HeapReset(heap)
  /\ mu' = "free"
  /\ rproc' = NoReset
  /\ UNCHANGED <<hcap, hll, tproc, kgiven, tupd, tresets, vproc, vret, offered,
                 missed, tmin, tsize, countVars, packedVars, cmsVars>>

\* --------------------------------------------------------- specifications

CountStart ==
  /\ c8 = 0
  /\ pre8 = NoCall
  /\ ret8 = 0
  /\ pre16 = NoCall
  /\ ret16 = WNat(0)

PackedStart ==
  /\ word = ZeroWord
  /\ proc = [p \in Procs |-> Idle]
  /\ ncalls = 0
  /\ pret = WNat(0)
  /\ made = [i \in Slots |-> 0]
  /\ swaps = [i \in Slots |-> 0]
  /\ advances = [i \in Slots |-> 0]
  /\ retries = 0
  /\ cleared = [i \in Slots |-> 0]
  /\ rret = estimate16x4(ZeroWord)
  /\ nresets = 0
  /\ ocalls = 0

\* no call on the TopK made yet
TopKIdle ==
  /\ mu = "free"
  /\ rproc = NoReset
  /\ vproc = NoValues
  /\ vret = <<>>
  /\ offered = [h \in TopKHashes |-> 0]
  /\ missed = FALSE
  /\ tmin = 0
  /\ tsize = 0

TopKStart ==
  /\ hcap = 0
  /\ hll = {}
  /\ tproc = [p \in Updaters |-> NoTopKCall]
  /\ kgiven = 0
  /\ tupd = 0
  /\ tresets = 0
  /\ TopKIdle

CMSStart ==
  /\ ctor = [via |-> "none", a |-> 0, b |-> 0]
  /\ sk = NoSketch
  /\ counts = NoCounts
  /\ total = 0
  /\ fault = FALSE
  /\ nupd = 0
  /\ calls = [h \in Hashes |-> 0]
  /\ adv = [h \in Hashes |-> 0]
  /\ uret = WNat(0)
  /\ cret = WNat(0)
  /\ uflag = FALSE
  /\ uproc = [p \in Procs |-> NoUpdate]
  /\ started = 0
  /\ completed = 0
  /\ heap = <<>>
  /\ TopKStart

CountInit ==
  /\ rev \in Revisions
  /\ CountStart
  /\ c16 \in {0, MaxUint16 - StartBelowMax}
  /\ PackedStart
  /\ CMSStart
  /\ skrev = "rows"

CountNext ==
  \/ Count8IncrementRoll
  \/ Count8IncrementRand
  \/ Count8IncrementF64
  \/ Count16IncrementRoll
  \/ Count16IncrementRand
  \/ Count16IncrementF64

SpecCount == CountInit /\ [][CountNext]_vars

PackedInit ==
  /\ rev \in {"rand", "roll"}
  /\ CountStart
  /\ c16 = 0
  /\ PackedStart
  /\ CMSStart
  /\ skrev = "rows"

PackedNext ==
  \/ \E p \in Procs, i \in -1 .. 4 : IncrementAt_Call(p, i)
  \/ \E p \in Procs : incrementAt_Load(p)
  \/ \E p \in Procs : IncrementAt_Load_rand(p)
  \/ \E p \in Procs : IncrementAt_CAS(p)

SpecPacked == PackedInit /\ [][PackedNext]_vars

\* the words of a Count16x4 whose slots 0 and 1 are one below the maximum
\* stored value or at it, and whose slots 2 and 3 are empty
SaturatedWords ==
  {<<a, b, 0, 0>> : a, b \in {MaxUint16 - 1, MaxUint16}}

\* a Count16x4 that many calls have brought to such a word
SaturatedInit ==
  /\ rev \in {"rand", "roll"}
  /\ CountStart
  /\ c16 = 0
  /\ word \in SaturatedWords
  /\ proc = [p \in Procs |-> Idle]
  /\ ncalls = 0
  /\ pret = WNat(0)
  /\ made = [i \in Slots |-> 0]
  /\ swaps = [i \in Slots |-> 0]
  /\ advances = [i \in Slots |-> 0]
  /\ retries = 0
  /\ cleared = [i \in Slots |-> 0]
  /\ rret = estimate16x4(ZeroWord)
  /\ nresets = 0
  /\ ocalls = 0
  /\ CMSStart
  /\ skrev = "rows"

\* IncrementAt on the two slots that are at the maximum or next to it
SaturatedNext ==
  \/ \E p \in Procs, i \in {0, 1} : IncrementAt_Call(p, i)
  \/ \E p \in Procs : incrementAt_Load(p)
  \/ \E p \in Procs : IncrementAt_Load_rand(p)
  \/ \E p \in Procs : IncrementAt_CAS(p)

SpecSaturated == SaturatedInit /\ [][SaturatedNext]_vars

\* IncrementAt on the slots of one word, with Reset alongside
WordNext ==
  \/ \E p \in Procs, i \in Slots : IncrementAt_Call(p, i)
  \/ \E p \in Procs : incrementAt_Load(p)
  \/ \E p \in Procs : IncrementAt_Load_rand(p)
  \/ \E p \in Procs : IncrementAt_CAS(p)
  \/ Count16x4_Reset

SpecWord == PackedInit /\ [][WordNext]_vars

\* the steps of the IncrementAt call of goroutine p once it is under way
IncrementAt_Step(p) ==
  incrementAt_Load(p) \/ IncrementAt_Load_rand(p) \/ IncrementAt_CAS(p)

\* the slots the calls of the fair runs are made on: the first goroutine
\* calls on slot 0 or 1, the others on slot 0
LiveSlots(p) == IF p = 1 THEN {0, 1} ELSE {0}

LiveNext ==
  \/ \E p \in Procs : \E i \in LiveSlots(p) : IncrementAt_Call(p, i)
  \/ \E p \in Procs : incrementAt_Load(p)
  \/ \E p \in Procs : IncrementAt_Load_rand(p)
  \/ \E p \in Procs : IncrementAt_CAS(p)
  \/ Count16x4_Reset

\* IncrementAt and Reset on one word under a scheduler that lets every
\* goroutine that can take a step take one in the end
LiveWord ==
  PackedInit /\ [][LiveNext]_vars /\ \A p \in Procs : WF_vars(IncrementAt_Step(p))

\* calls of IncrementAt and EstimateAt with any slot, in and out of range
BoundsNext ==
  \/ \E p \in Procs, i \in -1 .. 4 : IncrementAt_Call(p, i)
  \/ \E p \in Procs, i \in -1 .. 4 : EstimateAt_Call(p, i)
  \/ \E p \in Procs : incrementAt_Load(p)
  \/ \E p \in Procs : IncrementAt_Load_rand(p)
  \/ \E p \in Procs : IncrementAt_CAS(p)

SpecBounds == PackedInit /\ [][BoundsNext]_vars

SketchRevisions == {"rows", "shared"}

CMSInit ==
  /\ rev = "roll"
  /\ CountStart
  /\ c16 = 0
  /\ PackedStart
  /\ CMSStart
  /\ skrev \in SketchRevisions

CMSNext ==
  \/ Call_NewCountMin
  \/ Call_NewCountMinWithSize
  \/ Call_NewCountMinWithEstimates
  \/ \E h \in Hashes : UpdateHash(h)
  \/ \E h \in Hashes : Call_CountHash(h)
  \/ CountMin_Reset

SpecCMS == CMSInit /\ [][CMSNext]_vars

\* a sketch of src/cms.go as NewCountMinWithSize returned it, shared by the
\* goroutines
SharedDepths == {0, 2}

SharedWidths == {WNat(0), WNat(4)}

SharedInit ==
  /\ rev = "roll"
  /\ CountStart
  /\ c16 = 0
  /\ PackedStart
  /\ skrev = "rows"
  /\ \E d \in SharedDepths, w \in SharedWidths :
       /\ ctor = [via |-> "size", a |-> d, b |-> w]
       /\ sk = NewCountMinWithSize(d, w)
       /\ counts = MakeRows(d, w[2])
  /\ total = 0
  /\ fault = FALSE
  /\ nupd = 0
  /\ calls = [h \in Hashes |-> 0]
  /\ adv = [h \in Hashes |-> 0]
  /\ uret = WNat(0)
  /\ cret = WNat(0)
  /\ uflag = FALSE
  /\ uproc = [p \in Procs |-> NoUpdate]
  /\ started = 0
  /\ completed = 0
  /\ heap = <<>>
  /\ TopKStart

SharedNext ==
  \/ \E p \in Procs, h \in Hashes : UpdateHash_Begin(p, h)
  \/ \E p \in Procs : UpdateHash_Row(p)
  \/ \E p \in Procs : UpdateHash_Return(p)
  \/ CountMin_Reset

SpecShared == SharedInit /\ [][SharedNext]_vars

\* the sketch of src/cms.go as NewCountMin() returned it
KeyInit ==
  /\ rev = "roll"
  /\ CountStart
  /\ c16 = 0
  /\ PackedStart
  /\ skrev = "rows"
  /\ ctor = [via |-> "default", a |-> 0, b |-> 0]
  /\ sk = NewCountMin
  /\ counts = MakeRows(sk.depth, Width(sk))
  /\ total = 0
  /\ fault = FALSE
  /\ nupd = 0
  /\ calls = [h \in KeyHashes |-> 0]
  /\ adv = [h \in Hashes |-> 0]
  /\ uret = WNat(0)
  /\ cret = WNat(0)
  /\ uflag = FALSE
  /\ uproc = [p \in Procs |-> NoUpdate]
  /\ started = 0
  /\ completed = 0
  /\ heap = <<>>
  /\ TopKStart

KeyNext ==
  \/ \E h \in KeyHashes : Key_UpdateHash(h)
  \/ \E h \in KeyHashes : Key_CountHash(h)

\* a default sketch given distinct keys, each once
SpecKeys == KeyInit /\ [][KeyNext]_vars

\* a minheap on its own, from make(minheap, 0, k)
HeapInit ==
  /\ rev = "roll"
  /\ CountStart
  /\ c16 = 0
  /\ PackedStart
  /\ CMSStart
  /\ skrev = "shared"

HeapNext ==
  \/ Heap_Push
  \/ Heap_Pop
  \/ Heap_Update
  \/ Heap_Reset

SpecHeap == HeapInit /\ [][HeapNext]_vars

\* a TopK of part_001 as NewTopK(k) returned it
NewTopK(k) ==
  /\ rev = "roll"
  /\ CountStart
  /\ c16 = 0
  /\ PackedStart
  /\ skrev = "shared"
  /\ ctor = [via |-> "default", a |-> 0, b |-> 0]
  /\ sk = NewCountMin_shared
  /\ counts = MakeRows(TopKDepth, TopKWidth)
  /\ total = 0
  /\ fault = FALSE
  /\ nupd = 0
  /\ calls = [h \in Hashes |-> 0]
  /\ adv = [h \in Hashes |-> 0]
  /\ uret = WNat(0)
  /\ cret = WNat(0)
  /\ uflag = FALSE
  /\ uproc = [p \in Procs |-> NoUpdate]
  /\ started = 0
  /\ completed = 0
  /\ heap = <<>>
  /\ hcap = k
  /\ kgiven = k
  /\ hll = {}
  /\ tproc = [p \in Updaters |-> NoTopKCall]
  /\ tupd = 0
  /\ tresets = 0
  /\ TopKIdle

TopKInit == \E k \in 0 .. MaxK : NewTopK(k)

\* the values of the concurrent runs
RaceValues == {"a", "b"}

\* a TopK of src/topk.go as NewTopK(k) returned it: the sketch of src/cms.go,
\* maxSize k, and min and size at zero
NewTracker(k) ==
  /\ rev = "roll"
  /\ CountStart
  /\ c16 = 0
  /\ PackedStart
  /\ skrev = "rows"
  /\ ctor = [via |-> "default", a |-> 0, b |-> 0]
  /\ sk = NewCountMin
  /\ counts = MakeRows(TopKDepth, TrackerWidth)
  /\ total = 0
  /\ fault = FALSE
  /\ nupd = 0
  /\ calls = [h \in Hashes |-> 0]
  /\ adv = [h \in Hashes |-> 0]
  /\ uret = WNat(0)
  /\ cret = WNat(0)
  /\ uflag = FALSE
  /\ uproc = [p \in Procs |-> NoUpdate]
  /\ started = 0
  /\ completed = 0
  /\ heap = <<>>
  /\ hcap = k
  /\ kgiven = k
  /\ hll = {}
  /\ tproc = [p \in Updaters |-> NoTopKCall]
  /\ tupd = 0
  /\ tresets = 0
  /\ TopKIdle

TrackerInit == \E k \in 0 .. MaxK : NewTracker(k)

\* the values given to a TopK of src/topk.go: their hashes share every counter
TrackedValues == {"b", "d"}

Tracked_Update(value) == Quiet /\ tupd < MaxTopKUpdates /\ Tracker_Update(1, value)

Tracked_Reset == Quiet /\ tresets < MaxResets /\ Tracker_Reset

Tracked_Values == Quiet /\ Tracker_Values

TrackerNext ==
  \/ \E value \in TrackedValues : Tracked_Update(value)
  \/ Tracker_isTop(1)
  \/ Tracker_insert(1)
  \/ Tracked_Values
  \/ Tracker_Values_Return
  \/ Tracked_Reset
  \/ Tracker_Reset_Heap

SpecTracker == TrackerInit /\ [][TrackerNext]_vars

StreamInit == \E k \in 0 .. MaxStreamK : NewTopK(k)


\* an Update call of a concurrent run begins
Race_Update(p, value) == tupd < MaxTopKUpdates /\ TopK_Update(p, value)

\* a Reset call of a concurrent run begins
Race_Reset(k) == tresets < MaxResets /\ TopK_Reset(k)

TopKNext ==
  \/ \E p \in Updaters, v \in RaceValues : Race_Update(p, v)
  \/ \E p \in Updaters : TopK_Update_Count(p)
  \/ \E p \in Updaters : TopK_tryInsert(p)
  \/ \E k \in 0 - 1 .. MaxK : Race_Reset(k)
  \/ TopK_Reset_Sketch
  \/ TopK_Reset_Unlock
  \/ TopK_Reset_Return

SpecTopK == TopKInit /\ [][TopKNext]_vars

RaceNext ==
  \/ \E p \in Updaters, v \in RaceValues : Race_Update(p, v)
  \/ \E p \in Updaters : TopK_Update_Count(p)
  \/ \E p \in Updaters : TopK_tryInsert(p)

\* the calls are finitely many: two Updates in all, MaxResets Resets, and
\* Values until one has returned entries
Live_Update(p) == tupd < Cardinality(Updaters) /\ TopK_Update(p, "a")

Live_Reset == tresets < MaxResets /\ TopK_Reset(1)

Live_Values == vret = <<>> /\ TopK_Values

LiveTopKNext ==
  \/ \E p \in Updaters : Live_Update(p)
  \/ \E p \in Updaters : TopK_Update_Count(p)
  \/ \E p \in Updaters : TopK_tryInsert(p)
  \/ Live_Reset
  \/ TopK_Reset_Sketch
  \/ TopK_Reset_Unlock
  \/ TopK_Reset_Return
  \/ Live_Values
  \/ TopK_Values_Return
  \/ TopK_Cardinality_Call

\* the steps of the Update call of goroutine p once UpdateHash has returned
TopK_Update_Step(p) == TopK_Update_Count(p) \/ TopK_tryInsert(p)

\* the steps of a Reset call once it holds the mutex
TopK_Reset_Step == TopK_Reset_Sketch \/ TopK_Reset_Unlock \/ TopK_Reset_Return

\* a TopK of part_001 with capacity 1 on which goroutines call Update, Values,
\* Cardinality and Reset(1), under a scheduler that lets every call that can
\* take a step take one in the end
LiveTopK ==
  /\ NewTopK(1)
  /\ [][LiveTopKNext]_vars
  /\ \A p \in Updaters : WF_vars(TopK_Update_Step(p))
  /\ WF_vars(TopK_Reset_Step)
  /\ WF_vars(TopK_Values_Return)

\* a TopK of part_001 on which goroutines call Update and nothing else
SpecRace == StreamInit /\ [][RaceNext]_vars

\* the calls of a sequential run begin when nothing is in flight; in a stream
\* every Update draws a roll that advances all the counters of its hash, and
\* the stream is consumed before Values() has returned entries
Stream_Update(value) ==
  Quiet /\ vret = <<>> /\ tupd < MaxStream /\ TopK_Update(1, value) /\ ~missed'

Stream_Reset(k) == Quiet /\ tresets < MaxStreamResets /\ TopK_Reset(k)

Stream_Values == Quiet /\ TopK_Values

StreamNext ==
  \/ \E v \in TopKValues : Stream_Update(v)
  \/ TopK_Update_Count(1)
  \/ TopK_tryInsert(1)
  \/ Stream_Values
  \/ TopK_Values_Return

\* a TopK of part_001 that one goroutine feeds a stream and reads
SpecStream == StreamInit /\ [][StreamNext]_vars

\* a cycle of a sequential run begins or goes on
Cycle_Update(value) == Quiet /\ tupd < MaxCycle /\ TopK_Update(1, value) /\ ~missed'

\* the values of the cycles
CycleValues == {"a", "b", "c"}

CycleNext ==
  \/ \E v \in CycleValues : Cycle_Update(v)
  \/ TopK_Update_Count(1)
  \/ TopK_tryInsert(1)
  \/ \E k \in 0 - 1 .. MaxK : Stream_Reset(k)
  \/ TopK_Reset_Sketch
  \/ TopK_Reset_Unlock
  \/ TopK_Reset_Return

\* a TopK of part_001 that one goroutine updates and resets in turn
SpecCycle == StreamInit /\ [][CycleNext]_vars

\* ------------------------------------------------ claims on the counters

\* C3: for Count8 and Count16, in every revision, an Increment never lowers the
\* stored value and never lowers Estimate(): the value the call found (pre) and
\* its estimate are at most the value and the estimate it left.
C3_Monotone ==
  /\ pre8 # NoCall =>
       /\ pre8 <= c8
       /\ Estimate8(rev, pre8) <= Estimate8(rev, c8)
  /\ pre16 # NoCall =>
       /\ pre16 <= c16
       /\ WLeq(Estimate16(rev, pre16), Estimate16(rev, c16))

\* both counters were advanced by their last Increment, the 8-bit one past 3
C3_Witness ==
  /\ pre8 # NoCall /\ pre8 >= 3 /\ pre8 < c8
  /\ pre16 # NoCall /\ pre16 < c16

C5_ReturnsEstimate ==
  /\ pre8 # NoCall => ret8 = Estimate8(rev, c8)
  /\ pre16 # NoCall => ret16 = Estimate16(rev, c16)

\* the same, for the revisions rand and roll only
C5_ReturnsEstimate_RandRoll ==
  rev \in {"rand", "roll"} => C5_ReturnsEstimate

\* ------------------------------------------------ claims on Count16x4

AllReturned == \A p \in Procs : proc[p].pc = "idle"

\* C1, as stated: once all IncrementAt calls have returned (no Reset), each
\* slot's stored value equals the number of calls on that slot whose
\* compare-and-swap succeeded, and is at most the number of calls made on it.
C1_CountsSwaps ==
  AllReturned =>
    \A i \in Slots : SlotOf(word, i) = swaps[i] /\ SlotOf(word, i) <= made[i]

\* C1, amended: once all calls have returned, each slot's stored value equals
\* the number of calls on that slot whose compare-and-swap installed an
\* advanced counter, which is at most the number of calls whose
\* compare-and-swap succeeded and at most the number of calls made on it.
C1_NoLostAdvance ==
  AllReturned =>
    \A i \in Slots :
      /\ SlotOf(word, i) = advances[i]
      /\ advances[i] <= swaps[i]
      /\ swaps[i] <= made[i]

\* two calls or more were made on one slot and have returned; one lost a race
\* and went around the loop, and one did not advance the counter
C1_Witness ==
  /\ AllReturned
  /\ retries >= 1
  /\ \E i \in Slots : made[i] >= 2 /\ advances[i] >= 1 /\ advances[i] < made[i]

\* C2: a step changes the stored value of slot j only when it is the
\* successful compare-and-swap of an IncrementAt call on slot j; a call on
\* slot i leaves the other three slots as they are, under every interleaving.
C2_OtherSlotsKept ==
  [][\A j \in Slots :
       SlotOf(word', j) # SlotOf(word, j) =>
         \E p \in Procs : proc[p].pc = "cas" /\ proc[p].slot = j /\ proc'[p].pc = "idle"]_vars

\* calls on two different slots of the word raced (one had to retry), and both
\* slots hold the advance made on them
C2_Witness ==
  /\ retries >= 1
  /\ AllReturned
  /\ Cardinality({i \in Slots : SlotOf(word, i) >= 1 /\ SlotOf(word, i) = advances[i]}) >= 2

\* ------------------------------------------------------- claims: CountMin

\* a sketch held row by row whose UpdateHash and CountHash return
Usable == Held(sk) /\ ~DividesByZero(sk)

C7_AcceptsEveryHash == sk.live => ~fault

DimensionRuleBroken(depth, width) ==
  \/ depth % 2 # 0
  \/ depth > 128
  \/ WMod(width, 4) # 0
  \/ WLess(MaxInt32, width)

OutsideUnit(x) == x <= 0 \/ x >= 1000

\* C8: NewCountMinWithSize returns an error and no sketch whenever depth is
\* odd, depth > 128, width is not a multiple of 4 or width > 2^31-1;
\* NewCountMinWithEstimates returns an error and no sketch whenever epsilon
\* or confidence lies outside (0,1) or the derived depth or width breaks one
\* of those rules.
C8_Rejects ==
  /\ (ctor.via = "size" /\ DimensionRuleBroken(ctor.a, ctor.b))
       => ~sk.live /\ sk.err # NoError
  /\ (ctor.via = "estimates" /\ (OutsideUnit(ctor.a) \/ OutsideUnit(ctor.b)))
       => ~sk.live /\ sk.err # NoError
  /\ (ctor.via = "estimates" /\ ~OutsideUnit(ctor.a) /\ ~OutsideUnit(ctor.b)
        /\ DimensionRuleBroken(DerivedDepth(ctor.b), WNat(DerivedWidth(ctor.a))))
       => ~sk.live /\ sk.err # NoError

\* a width of 2^31 with an even depth within 128 was refused
C8_Witness ==
  /\ ctor.via = "size"
  /\ ctor.a = 128
  /\ ctor.b = <<2147, 483648>>
  /\ ~sk.live
  /\ sk.err = "sketch: width should be less than MaxInt32"

\* C9: every sketch a constructor returns without error has an even depth
\* <= 128 and a width that is a multiple of 4 and <= 2^31-1, holds depth rows
\* of width/4 packed groups, and starts with every counter and the total at
\* zero.
C9_Constructed ==
  sk.live =>
    /\ sk.depth % 2 = 0
    /\ sk.depth <= 128
    /\ WMod(sk.width, 4) = 0
    /\ WLeq(sk.width, MaxInt32)
    /\ Held(sk) =>
         /\ DOMAIN counts = 0 .. sk.depth - 1
         /\ \A i \in DOMAIN counts :
              DOMAIN counts[i] = 0 .. (Width(sk) \div 4) - 1
         /\ nupd = 0 =>
              /\ total = 0
              /\ \A i \in DOMAIN counts : \A g \in DOMAIN counts[i] :
                   \A j \in Slots : SlotOf(counts[i][g], j) = 0

\* a 4 x 8 sketch derived from estimates, before its first update
C9_Witness ==
  /\ ctor.via = "estimates"
  /\ sk.live
  /\ sk.depth = 4
  /\ sk.width = WNat(8)
  /\ nupd = 0
  /\ Cardinality(DOMAIN counts) = 4
  /\ Cardinality(DOMAIN counts[0]) = 2

\* C10 as stated: NewCountMinWithEstimates(0.001, 0.99) succeeds and yields
\* the dimensions of NewCountMin(): depth 4 and width 2048.
C10_DefaultEstimates ==
  /\ (skrev = "rows" /\ ctor.via = "default") => sk.live /\ sk.depth = 4 /\ sk.width = WNat(2048)
  /\ (ctor.via = "estimates" /\ ctor.a = 1 /\ ctor.b = 990)
       => sk.live /\ sk.depth = 4 /\ sk.width = WNat(2048)

\* ------------------------------------------- claims: UpdateHash, CountHash

\* the step is an UpdateHash(h) that returned
Updated(h) == nupd' = nupd + 1 /\ ~fault' /\ calls'[h] = calls[h] + 1

\* the column of hash h in row i: (lo + i*hi) mod width
Column(h, i) == (h[1] + i * h[2]) % Width(sk)

\* the stored value of the counter of h in row i of the rows cnt
StoredOf(cnt, h, i) == SlotOf(cnt[i][Column(h, i) \div 4], Column(h, i) % 4)

Rows == 0 .. sk.depth - 1

\* the least estimate over all rows of h, from the last row to the first,
\* with no early exit, capped as uint32
RECURSIVE MinEstimate(_, _, _)
MinEstimate(cnt, h, i) ==
  IF i = 0 THEN MaxUint32
  ELSE WMin(n16(StoredOf(cnt, h, i - 1)), MinEstimate(cnt, h, i - 1))

\* C11: UpdateHash(hash) touches in each row i only the counter at index
\* (lo + i*hi) mod width, slot idx mod 4 of group idx / 4, advances it by at
\* most one, and leaves every other counter of the sketch unchanged.
C11_TouchesOwnCells ==
  [][\A h \in Hashes : Updated(h) =>
       \A i \in Rows : \A g \in DOMAIN counts[i] : \A j \in Slots :
         LET old == SlotOf(counts[i][g], j)
             new == SlotOf(counts'[i][g], j)
         IN  IF g = Column(h, i) \div 4 /\ j = Column(h, i) % 4
               THEN new = old \/ new = old + 1
               ELSE new = old]_vars

\* UpdateHash of the hash <<1, 1>> on a fresh 4 x 8 sketch has advanced the
\* columns 1, 2, 3 and 4 of the rows 0 .. 3: the last one is slot 0 of group 1
C11_Witness ==
  /\ Usable
  /\ sk.depth = 4
  /\ sk.width = WNat(8)
  /\ calls[<<1, 1>>] = 1
  /\ \A h \in Hashes : h # <<1, 1>> => calls[h] = 0
  /\ \A i \in Rows : StoredOf(counts, <<1, 1>>, i) = 1
  /\ SlotOf(counts[3][1], 0) = 1
  /\ SlotOf(counts[0][0], 1) = 1
  /\ SlotOf(counts[0][0], 0) = 0

\* C12: in a sequential run the value UpdateHash(h) returns is the minimum of
\* the estimates of the item's per-row counters after the update, and equals
\* CountHash(h) evaluated immediately afterwards.
C12_ReturnsCount ==
  [][\A h \in Hashes : (skrev = "rows" /\ Updated(h)) =>
       /\ uret' = MinEstimate(counts', h, sk.depth)
       /\ uret' = CountRows(counts', sk.depth, Width(sk), h[1], h[2], 0, MaxUint32)]_vars

\* the second UpdateHash of a hash returned 2, and CountHash reads 2
C12_Witness ==
  /\ skrev = "rows"
  /\ Usable
  /\ sk.depth > 0
  /\ uret = WNat(2)
  /\ \E h \in Hashes : calls[h] = 2 /\ adv[h] = 2 /\ CountHash(h) = WNat(2)
  /\ cret = WNat(2)

\* C13: CountHash changes no counter and not the total, and returns the
\* minimum over all depth rows of the estimates at the item's indices;
\* stopping the loop once the running minimum is 0 never changes the result.
C13_ReadOnlyMinimum ==
  [][/\ cret' # cret =>
          /\ counts' = counts
          /\ total' = total
          /\ \E h \in Hashes : cret' = MinEstimate(counts, h, sk.depth)
     /\ (Usable /\ sk' = sk /\ ~fault') =>
          \A h \in Hashes :
            CountRows(counts', sk.depth, Width(sk), h[1], h[2], 0, MaxUint32)
              = MinEstimate(counts', h, sk.depth)]_vars

\* CountHash has returned 1 on a sketch where another hash, whose first row is
\* at 1 and a later row at 0, reads 0
C13_Witness ==
  /\ Usable
  /\ sk.depth > 0
  /\ cret = WNat(1)
  /\ total = 1
  /\ \E h \in Hashes :
       /\ StoredOf(counts, h, 0) = 1
       /\ \E i \in Rows : StoredOf(counts, h, i) = 0
       /\ CountHash(h) = WNat(0)

\* C14 as stated: one UpdateHash call applies one roll to every row, so two
\* rows whose counters hold the same stored value either both advance or
\* both stay.
C14_SharedRoll ==
  [][\A h \in Hashes : Updated(h) =>
       \A i, k \in Rows :
         StoredOf(counts, h, i) = StoredOf(counts, h, k) =>
           (StoredOf(counts', h, i) # StoredOf(counts, h, i)
              <=> StoredOf(counts', h, k) # StoredOf(counts, h, k))]_vars

\* the same, of the revision of part_000 alone
C14_SharedRoll_part000 ==
  [][\A h \in Hashes : (skrev = "shared" /\ Updated(h)) =>
       \A i, k \in Rows :
         StoredOf(counts, h, i) = StoredOf(counts, h, k) =>
           (StoredOf(counts', h, i) # StoredOf(counts, h, i)
              <=> StoredOf(counts', h, k) # StoredOf(counts, h, k))]_vars

\* no UpdateHash has returned or faulted since construction or the last Reset
Fresh == ~fault /\ \A h \in Hashes : calls[h] = 0

\* C16 as stated: on every sketch a constructor returned without error,
\* fresh or just after Reset, CountHash(h) returns 0 for every hash h and
\* CountTotal() is 0.
C16_ZeroWhenFresh ==
  (Held(sk) /\ Fresh) =>
    /\ ~DividesByZero(sk)
    /\ total = 0
    /\ \A h \in Hashes : CountHash(h) = WNat(0)

\* ----------------------------------------------------- claims: CountTotal

\* C15 as stated: CountTotal() equals the number of UpdateHash calls
\* completed since construction or the last Reset, under any interleaving.
C15_TotalIsCompleted == skrev = "rows" => CountTotal = completed

\* C15 amended: CountTotal() equals the number of UpdateHash calls begun
\* since construction or the last Reset, each of which added 1 before its
\* first row; it is never below the number that returned, and equals it
\* when no call is in flight and none has faulted.
C15_TotalIsStarted ==
  skrev = "rows" =>
    /\ CountTotal = started
    /\ completed <= CountTotal
    /\ (~fault /\ \A p \in Procs : uproc[p].pc = "idle") => CountTotal = completed

\* two calls begun by two goroutines, one returned and one among its rows
C15_Witness ==
  /\ skrev = "rows"
  /\ sk.depth > 0
  /\ CountTotal = 2
  /\ completed = 1
  /\ \E p \in Procs : uproc[p].pc = "rows" /\ uproc[p].i = 1

\* ------------------------------------------ claims: Count16x4 Reset, bounds

\* C17: Count16x4.Reset atomically replaces the word with zero and returns
\* the estimates of exactly the four stored values it replaced; under
\* concurrent IncrementAt calls every committed advance is either among the
\* values a Reset replaced or in the word, never both and never neither.
C17_ResetKeepsAdvances ==
  /\ [](\A i \in Slots : advances[i] = cleared[i] + SlotOf(word, i))
  /\ [][nresets' # nresets =>
          /\ word' = ZeroWord
          /\ rret' = [j \in 1 .. 4 |-> n16(SlotOf(word, j - 1))]
          /\ \A i \in Slots : cleared'[i] - cleared[i] = SlotOf(word, i)]_vars

\* a Reset came between the load and the compare-and-swap of an IncrementAt,
\* whose swap failed; the Reset returned an advance, and the call's advance is
\* in the word
C17_Witness ==
  /\ nresets = 1
  /\ retries >= 1
  /\ AllReturned
  /\ rret[1] = WNat(1)
  /\ cleared[0] = 1
  /\ SlotOf(word, 0) = 1
  /\ advances[0] = 2

\* C18: IncrementAt and EstimateAt called with a slot index outside 0..3
\* return 0 and leave the 64-bit word unchanged.
C18_OutOfRange ==
  [][ocalls' # ocalls => word' = word /\ pret' = WNat(0) /\ proc' = proc]_vars

\* an out-of-range call returned 0 on a word whose slots 0 and 3 are not 0
C18_Witness ==
  /\ ocalls = 1
  /\ pret = WNat(0)
  /\ SlotOf(word, 0) > 0
  /\ SlotOf(word, 3) > 0

\* ---------------------------------------------------------- claims: minheap

\* every entry's Count is at least its parent's
HeapOrdered(h) ==
  \A k \in 1 .. Len(h) - 1 : h[((k - 1) \div 2) + 1].Count <= h[k + 1].Count

\* the root holds the least Count
RootIsMin(h) == \A k \in 1 .. Len(h) : h[1].Count <= h[k].Count

\* C20: after every minheap Push, Pop and Update (with any new count, larger
\* or smaller) each heap entry's Count is >= its parent's Count and the root
\* holds the minimum Count of all entries.
C20_HeapOrdered == HeapOrdered(heap) /\ RootIsMin(heap)

\* a heap of four entries in which the entry at index 3, two levels below
\* the root, holds less than the right child of the root
C20_Witness ==
  /\ Len(heap) = 4
  /\ heap[1].Count = 0
  /\ heap[4].Count < heap[3].Count
  /\ heap[2].Count < heap[4].Count

\* ------------------------------------------------------------- claims: TopK

\* the capacity a given k stands for: resize(k) makes a heap of none for k <= 0
Capacity(k) == IF k <= 0 THEN 0 ELSE k

\* C19: in every reachable state of a TopK tracker the heap holds at most K
\* entries, where K is the capacity given to NewTopK or to the last Reset.
C19_AtMostK == Len(heap) <= Capacity(kgiven) /\ hcap = Capacity(kgiven)

\* a full heap took one more item in place of its root
C19_Witness ==
  /\ tresets = 0
  /\ kgiven >= 1
  /\ Len(heap) = kgiven
  /\ Cardinality(hll) > kgiven
  /\ Quiet

\* C21: in every reachable state, under any interleaving of Update calls, no
\* two entries of the heap carry the same hash.
C21_OneEntryPerHash ==
  \A i, j \in 1 .. Len(heap) : i # j => heap[i].hash # heap[j].hash

\* the value "a" was offered twice, by one goroutine or by two, and is tracked
\* once
C21_Witness ==
  /\ tresets = 0
  /\ Quiet
  /\ offered[HashString("a")] = 2
  /\ Len(heap) = 1
  /\ heap[1].hash = HashString("a")
  /\ heap[1].Count = 2
  /\ hcap = 2

\* uint32(t.cms.CountHash(hash)) on the sketch as it stands
CountNow(hash) ==
  Count32(CountRows(counts, TopKDepth, TopKWidth, hash[1], hash[2], 0, MaxUint32))

\* C22: whenever no Update is in progress, the Count of every heap entry
\* equals the sketch's current CountHash for the hash of that entry.
C22_CountInSync ==
  (\A p \in Updaters : tproc[p].pc = "idle") =>
    \A i \in 1 .. Len(heap) : heap[i].Count = CountNow(heap[i].hash)

\* how often the entry e occurs in the heap h
Occurs(h, e) == Cardinality({i \in 1 .. Len(h) : h[i] = e})

Entries(h) == {h[i] : i \in 1 .. Len(h)}

\* the entry tryInsert pushes for the call of goroutine p
Offer(p) == [Value |-> tproc[p].value, hash |-> tproc[p].hash, Count |-> tproc[p].count]

\* goroutine p runs tryInsert in this step
Inserts(p) == tproc[p].pc = "insert" /\ tproc'[p].pc = "idle"

\* h2 is h1 with one occurrence of the entry gone taken out and the entry new
\* put in
Replaces(h1, h2, gone, new) ==
  \A e \in Entries(h1) \cup Entries(h2) \cup {new} :
    Occurs(h2, e) + (IF e = gone THEN 1 ELSE 0)
      = Occurs(h1, e) + (IF e = new THEN 1 ELSE 0)

\* C23: when the heap is full and Update offers an item that is not tracked,
\* the heap is left unchanged if the item's count is below the root's count;
\* otherwise exactly one entry is removed, one whose Count is minimal among
\* the tracked entries, the new item is added, the size stays K and every
\* other entry is retained.
C23_FullHeapOffer ==
  [][\A p \in Updaters :
       (Inserts(p) /\ hcap > 0 /\ Len(heap) = hcap
          /\ \A i \in 1 .. Len(heap) : heap[i].hash # tproc[p].hash) =>
         IF tproc[p].count < heap[1].Count
           THEN heap' = heap
           ELSE /\ Len(heap') = hcap
                /\ \E j \in 1 .. Len(heap) :
                     /\ \A m \in 1 .. Len(heap) : heap[j].Count <= heap[m].Count
                     /\ Replaces(heap, heap', heap[j], Offer(p))]_vars

\* a full heap of two entries turned an item away: three values were offered,
\* and the one with the least count is not tracked
C23_Witness ==
  /\ Quiet
  /\ hcap = 2
  /\ Len(heap) = 2
  /\ Cardinality(hll) = 3
  /\ \E h \in hll :
       /\ \A i \in 1 .. Len(heap) : heap[i].hash # h
       /\ offered[h] < heap[1].Count

\* the hash and the value of every entry
Tracked(h) == {<<h[i].hash, h[i].Value>> : i \in 1 .. Len(h)}

\* C24: when Update offers an item whose hash is in the heap and whose count
\* is not below the root's count, only that entry's Count changes: the heap's
\* size and its set of hashes and values stay the same, and the heap order is
\* re-established.
C24_TrackedOffer ==
  [][\A p \in Updaters :
       (Inserts(p) /\ hcap > 0 /\ Len(heap) > 0 /\ tproc[p].count >= heap[1].Count) =>
         \A i \in 1 .. Len(heap) :
           heap[i].hash = tproc[p].hash =>
             /\ Len(heap') = Len(heap)
             /\ Tracked(heap') = Tracked(heap)
             /\ Replaces(heap, heap', heap[i], [heap[i] EXCEPT !.Count = tproc[p].count])
             /\ HeapOrdered(heap')
             /\ RootIsMin(heap')]_vars

\* "a" and "b" are tracked and a second Update of "a" raised its Count to 2
C24_Witness ==
  /\ Quiet
  /\ Len(heap) = 2
  /\ heap[1].Value = "b"
  /\ heap[1].Count = 1
  /\ heap[2].Value = "a"
  /\ heap[2].Count = 2
  /\ offered[HashString("a")] = 2

\* the same entries, each as often
SameEntries(h1, h2) ==
  \A e \in Entries(h1) \cup Entries(h2) : Occurs(h1, e) = Occurs(h2, e)

Ascending(out) == \A i \in 1 .. Len(out) - 1 : out[i].Count <= out[i + 1].Count

\* C25: Values() returns a copy of exactly the entries the heap holds at the
\* moment of the snapshot (at most K), sorted in non-decreasing order of
\* Count, and leaves the heap, the sketch and the cardinality estimator
\* unchanged.
C25_ValuesSnapshot ==
  [][/\ (vproc.pc = "idle" /\ vproc'.pc = "sort") =>
          /\ SameEntries(vproc'.out, heap)
          /\ Len(vproc'.out) <= hcap
          /\ heap' = heap /\ hcap' = hcap /\ counts' = counts /\ hll' = hll
     /\ (vproc.pc = "sort" /\ vproc'.pc = "idle") =>
          /\ SameEntries(vret', vproc.out)
          /\ Len(vret') = Len(vproc.out)
          /\ Ascending(vret')
          /\ heap' = heap /\ hcap' = hcap /\ counts' = counts /\ hll' = hll]_vars

\* Values() returned three entries in another order than the heap holds them
C25_Witness ==
  /\ Quiet
  /\ Len(vret) = 3
  /\ Len(heap) = 3
  /\ vret # heap
  /\ SameEntries(vret, heap)

\* the hashes offered since the last Reset
Seen == {h \in TopKHashes : offered[h] > 0}

\* two hashes index the same counter in some row
SharesCell(h, g) ==
  \E i \in 0 .. TopKDepth - 1 :
    Index(h[1], h[2], i, TopKWidth) = Index(g[1], g[2], i, TopKWidth)

\* the sketch's estimates are exact: every update advanced its counters and
\* no two items share a cell
ExactSketch ==
  /\ ~missed
  /\ \A h, g \in Seen : h # g => ~SharesCell(h, g)

\* the K most frequent of the items seen, all of them if there are fewer
MostFrequent ==
  {h \in Seen : Cardinality({g \in Seen : offered[g] > offered[h]}) < hcap}

\* C26: when the sketch's estimates are exact and the items' frequencies are
\* distinct, then after sequentially consuming the stream a tracker of
\* capacity K holds exactly the K most frequent items (all items if there are
\* fewer than K), and Values() lists them with their true counts in ascending
\* order.
C26_ExactTopK ==
  (/\ \A p \in Updaters : tproc[p].pc = "idle"
   /\ ExactSketch
   /\ \A h, g \in Seen : h # g => offered[h] # offered[g]) =>
    /\ {heap[i].hash : i \in 1 .. Len(heap)} = MostFrequent
    /\ Len(heap) = Cardinality(MostFrequent)
    /\ \A s \in Sorted(Clone(heap)) :
         /\ Len(s) = Len(heap)
         /\ {s[i].hash : i \in 1 .. Len(s)} = MostFrequent
         /\ \A i \in 1 .. Len(s) : s[i].Count = offered[s[i].hash]
         /\ Ascending(s)

\* a tracker of capacity 2 consumed three items of frequencies 1, 2 and 3 and
\* Values() returned the two most frequent
C26_Witness ==
  /\ Quiet
  /\ hcap = 2
  /\ ExactSketch
  /\ {offered[h] : h \in Seen} = {1, 2, 3}
  /\ Cardinality(Seen) = 3
  /\ Len(vret) = 2
  /\ vret[1].Count = 2
  /\ vret[2].Count = 3

\* every counter of the sketch holds zero
SketchEmpty(cnt) ==
  \A i \in DOMAIN cnt : \A g \in DOMAIN cnt[i] : cnt[i][g] = ZeroWord

\* C27: in a sequential run Reset(k) returns the heap's entries from before
\* the call sorted ascending by count, together with the cardinality estimate
\* from before the call, and leaves the tracker empty: Values() is empty,
\* Cardinality() is 0, every sketch count is 0 and the capacity is k (0 when
\* k <= 0); this holds in every cycle of updates and Reset.
C27_ResetReturns ==
  [][/\ (rproc.pc = "idle" /\ rproc'.pc # "idle") =>
          /\ SameEntries(rproc'.out, heap)
          /\ Len(rproc'.out) = Len(heap)
          /\ rproc'.n = TopK_Cardinality
     /\ (rproc.pc # "idle" /\ rproc'.pc # "idle") =>
          /\ rproc'.out = rproc.out
          /\ rproc'.n = rproc.n
          /\ rproc'.k = rproc.k
     /\ (rproc.pc # "idle" /\ rproc'.pc = "idle") =>
          /\ SameEntries(rproc'.out, rproc.out)
          /\ Len(rproc'.out) = Len(rproc.out)
          /\ Ascending(rproc'.out)
          /\ rproc'.n = rproc.n
          /\ heap' = <<>>
          /\ Sorted(Clone(heap')) = {<<>>}
          /\ Estimate(hll') = 0
          /\ SketchEmpty(counts')
          /\ hcap' = Capacity(rproc.k)]_vars

\* the second Reset of a run, called with k = -1 on a tracker the first Reset
\* left with capacity 1, returned the one entry with the count 2 and the
\* cardinality 2, and left the capacity 0
C27_Witness ==
  /\ Quiet
  /\ tresets = 2
  /\ kgiven = 0 - 1
  /\ hcap = 0
  /\ Len(rproc.out) = 1
  /\ rproc.n = 2
  /\ rproc.out[1].Count = 2
  /\ heap = <<>>

\* C28: Reset is atomic with respect to concurrent Update calls: once Reset
\* has returned, no heap entry carries a count that was computed from the
\* sketch before it was cleared; that is, no tryInsert changes the heap with a
\* count read before the last clearing of the sketch.
C28_ResetAtomic ==
  [][\A p \in Updaters :
       (Inserts(p) /\ tproc[p].era < Clears) => heap' = heap]_vars

\* C30: the tracker's mutex is never held while a sketch operation
\* (UpdateHash, CountHash or Reset of the CountMin), hashing, or the output
\* sort is executing: no call runs one of these steps while it holds t.mu.
C30_MutexOnlyHeap ==
  [][/\ \A p \in Updaters :
          (tproc[p].pc \in {"idle", "count"} /\ tproc'[p] # tproc[p]) => mu # "Update"
     /\ (rproc.pc = "cms" /\ rproc'.pc # "cms") => mu # "Reset"
     /\ (rproc.pc = "sort" /\ rproc'.pc # "sort") => mu # "Reset"
     /\ (vproc.pc = "sort" /\ vproc'.pc # "sort") => mu # "Values"]_vars

\* C29: a tracker with capacity 0 is valid: no Update faults, the heap stays
\* empty, and once the calls have returned every hash offered since the last
\* Reset is registered with the cardinality estimator
C29_ZeroCapacity ==
  hcap = 0 =>
    /\ ~fault
    /\ heap = <<>>
    /\ Quiet => \A h \in TopKHashes : offered[h] > 0 => h \in hll

\* C31: an Update whose sketch update advanced a counter goes on to tryInsert,
\* and tryInsert registers the hash with the cardinality estimator whatever
\* it does to the heap; an Update whose sketch update advanced nothing
\* returns at once and changes neither the heap nor the estimator.
C31_RegistersHash ==
  [][/\ (tupd' # tupd /\ counts' = counts) =>
          heap' = heap /\ hll' = hll /\ tproc' = tproc
     /\ (tupd' # tupd /\ counts' # counts) =>
          \E p \in Updaters : tproc[p].pc = "idle" /\ tproc'[p].pc = "count"
     /\ \A p \in Updaters : Inserts(p) => tproc[p].hash \in hll']_vars

\* on a tracker of capacity 0 "a" was offered twice: the first Update
\* registered its hash and left the heap empty, the second advanced nothing
C31_Witness ==
  /\ Quiet
  /\ hcap = 0
  /\ offered[HashString("a")] = 2
  /\ CountNow(HashString("a")) = 1
  /\ hll = {HashString("a")}
  /\ heap = <<>>

\* the compare-and-swaps that have succeeded, on all slots
SwapsDone == swaps[0] + swaps[1] + swaps[2] + swaps[3]

\* C32: with finitely many IncrementAt and Reset calls on one word and fair
\* scheduling every IncrementAt call under way returns in the end; and a
\* compare-and-swap fails only after the word was changed since the load, so
\* the failures are bounded by the changes others made: every successful
\* swap fails at most the other calls under way, a Reset at most all of them.
C32_EveryCallReturns ==
  /\ \A p \in Procs : (proc[p].pc # "idle") ~> (proc[p].pc = "idle")
  /\ [](retries <= (NProcs - 1) * SwapsDone + NProcs * nresets)
  /\ [][\A p \in Procs :
          (proc[p].pc = "cas" /\ proc'[p].pc = "load") => word # proc[p].loaded]_vars

\* a compare-and-swap has failed and every call has returned since
C32_Witness ==
  /\ retries > 0
  /\ ncalls = MaxCalls
  /\ \A p \in Procs : proc[p].pc = "idle"

\* defaultEpsilon = 0.001 and defaultConfidence = 0.99, in thousandths and
\* in hundredths
DefaultEpsilon == 1

DefaultConfidence == 99

\* the keys updated, each once: the stream has N = nupd keys
KeysSeen == {h \in KeyHashes : calls[h] > 0}

\* the Count of the key exceeds its true count 1 by more than epsilon * N
OverCounts(h) == 1000 * Count32(CountHash(h)) > 1000 + DefaultEpsilon * nupd

\* another key of the stream indexes the counter of h in row i
SharedIn(h, i) ==
  \E g \in KeysSeen \ {h} :
    Index(g[1], g[2], i, Width(sk)) = Index(h[1], h[2], i, Width(sk))

\* C33 as stated: for a stream of N distinct keys each updated once on a
\* default sketch, the fraction of keys whose Count exceeds true_count +
\* epsilon * N is below 1 - confidence.
C33_ErrorBound ==
  nupd > 0 =>
    100 * Cardinality({h \in KeysSeen : OverCounts(h)}) < (100 - DefaultConfidence) * nupd

\* C33: for a stream of N distinct keys each updated once on a default
\* sketch, a key's Count exceeds true_count + epsilon * N only if in every
\* row another key of the stream indexes its counter; a key with a row to
\* itself counts 1.
C33_OverCountNeedsCollisions ==
  \A h \in KeysSeen :
    /\ OverCounts(h) => \A i \in 0 .. sk.depth - 1 : SharedIn(h, i)
    /\ (\E i \in 0 .. sk.depth - 1 : ~SharedIn(h, i)) => CountHash(h) = WNat(1)

\* three keys were updated; <<1, 0>> shares every counter with <<2049, 0>>
\* and counts more than 1, <<1, 1>> shares the counter of row 0 and counts 1
C33_Witness ==
  /\ KeysSeen = {<<1, 0>>, <<2049, 0>>, <<1, 1>>}
  /\ OverCounts(<<1, 0>>)
  /\ SharedIn(<<1, 1>>, 0)
  /\ ~OverCounts(<<1, 1>>)

\* C34: in the tracker of src/topk.go, in every reachable state, Reset
\* included, isTop rejects no update that the locked check of insert would
\* accept: for every count and value, when isTop(count) is false, insert
\* with that count leaves the heap as it is.
C34_NoFalseReject ==
  \A count \in 0 .. MaxTopKUpdates + 1, v \in TrackedValues :
    ~isTop(tmin, tsize, hcap, count) =>
      insert(heap, hcap, v, HashString(v), count).h = heap

\* after a Reset the heap is empty and the minimum stored before it is 2: an
\* update with count 1 is below the stored minimum, and insert would push it
C34_Witness ==
  /\ Quiet
  /\ ~fault
  /\ tresets = 1
  /\ hcap = 1
  /\ heap = <<>>
  /\ tmin = 2
  /\ insert(heap, hcap, "b", HashString("b"), 1).h # heap

\* C35: under any interleaving of concurrent Update calls, with no Reset,
\* the Count the heap stores for a hash never decreases while the hash stays
\* in the heap: a hash tracked before and after a step has no lower Count
\* after it.
C35_CountNeverDecreases ==
  [][\A i \in 1 .. Len(heap), j \in 1 .. Len(heap') :
       heap[i].hash = heap'[j].hash => heap[i].Count <= heap'[j].Count]_vars

\* C36: IncrementAt on a slot whose stored value is 65535 leaves the whole
\* word unchanged for every roll: no step of a call on a slot that holds
\* 65535 changes the word, so the slot does not wrap to 0 and nothing is
\* carried into a neighbouring slot.
C36_SaturatedSlot ==
  [][\A p \in Procs :
       (/\ proc[p].pc # "idle"
        /\ proc'[p] # proc[p]
        /\ SlotOf(word, proc[p].slot) = MaxUint16) => word' = word]_vars

\* a call on slot 0, which held 65535 next to a slot at 65534, has returned
\* the saturation constant and left the word as it was
C36_Witness ==
  /\ rev = "roll"
  /\ word = <<MaxUint16, MaxUint16 - 1, 0, 0>>
  /\ made[0] = 1
  /\ made[1] = 0
  /\ pret = MaxCount16
  /\ \A p \in Procs : proc[p].pc = "idle"

\* C37: an Increment that finds a counter at stored value 0 advances it to
\* stored value 1, whose estimate is 1, whatever the roll, and returns 1
\* (all three revisions).
C37_FirstIncrement ==
  /\ pre8 = 0 => c8 = 1 /\ ret8 = 1 /\ Estimate8(rev, c8) = 1
  /\ pre16 = 0 => c16 = 1 /\ ret16 = WNat(1) /\ Estimate16(rev, c16) = WNat(1)

\* the same, for the revisions rand and roll only
C37_FirstIncrement_RandRoll ==
  rev \in {"rand", "roll"} => C37_FirstIncrement

\* in a sequential run on a sketch of the revision roll, an item updated at
\* least once since construction or the last Reset does not count 0
C37_UpdatedCountsNonzero ==
  Usable => \A h \in Hashes : calls[h] > 0 => CountHash(h) # WNat(0)

\* C38: every TopK operation releases the mutex on every path: the mutex is
\* held only by a Reset between its Lock and its Unlock, and is free whenever
\* no call is under way; and with finitely many concurrent calls and fair
\* scheduling, whenever some Update, Values or Reset call is under way a state
\* follows in which every call has returned.
C38_EveryCallReturns ==
  /\ [](mu # "free" => rproc.pc \in {"cms", "hll"})
  /\ [](Quiet => mu = "free")
  /\ (~Quiet) ~> Quiet

\* two Updates, a Reset and a Values call have returned and the mutex is free
C38_Witness ==
  /\ Quiet
  /\ mu = "free"
  /\ tupd = 2
  /\ tresets = 1
  /\ Len(vret) = 1
  /\ Len(heap) = 1

====
